---- MODULE Spec2Model ----
(***************************************************************************)
(* Model of the record-extraction engine of ollama-converter/main.py:      *)
(* the value coercers, the four field resolvers, the direct CSV path, the  *)
(* response unwrapper, the per-item type detector and the conversion       *)
(* orchestrator convert_data with its calls to the extraction service.     *)
(*                                                                         *)
(* Python values are tagged records: None, Str(chars), Num(n), Lst(seq),   *)
(* Dict(function).  A string is a sequence of one-character strings, so    *)
(* that strip() and the other string operations are computed.              *)
(***************************************************************************)
EXTENDS Integers, Sequences, FiniteSets, TLC

-----------------------------------------------------------------------------
(* Python values *)

None == [t |-> "null"]
Str(s) == [t |-> "str", s |-> s]
Num(n) == [t |-> "num", n |-> n]
Lst(l) == [t |-> "list", l |-> l]
Dict(d) == [t |-> "dict", d |-> d]

EmptyDict == [k \in {} |-> None]

IsStr(v) == v.t = "str"
IsNum(v) == v.t = "num"
IsList(v) == v.t = "list"
IsDict(v) == v.t = "dict"

\* bool(v): the truth value Python gives v in `a or b` and `if v`
Truthy(v) ==
    CASE v.t = "null" -> FALSE
      [] v.t = "str"  -> Len(v.s) > 0
      [] v.t = "num"  -> v.n # 0
      [] v.t = "list" -> Len(v.l) > 0
      [] v.t = "dict" -> DOMAIN v.d # {}

\* d.get(k): None when the key is absent
Get(d, k) == IF k \in DOMAIN d THEN d[k] ELSE None

\* d.get(k, default)
GetD(d, k, default) == IF k \in DOMAIN d THEN d[k] ELSE default

\* a or b or ... or last: the first truthy operand, else the last operand
RECURSIVE OrChain(_, _)
OrChain(vals, last) ==
    IF vals = <<>> THEN last
    ELSE IF Truthy(Head(vals)) THEN Head(vals)
    ELSE OrChain(Tail(vals), last)

\* d.get(k1) or d.get(k2) or ... or last
GetOr(d, keys, last) == OrChain([i \in 1..Len(keys) |-> Get(d, keys[i])], last)

\* d.get(k1, d.get(k2, ... default)): the first key present, whatever its value
RECURSIVE GetNested(_, _, _)
GetNested(d, keys, default) ==
    IF keys = <<>> THEN default
    ELSE IF Head(keys) \in DOMAIN d THEN d[Head(keys)]
    ELSE GetNested(d, Tail(keys), default)

-----------------------------------------------------------------------------
(* Strings *)

IsSpace(c) == c \in {" ", "\t", "\n", "\r"}

RECURSIVE LStrip(_)
LStrip(s) == IF s # <<>> /\ IsSpace(Head(s)) THEN LStrip(Tail(s)) ELSE s

RECURSIVE RStrip(_)
RStrip(s) ==
    IF s # <<>> /\ IsSpace(s[Len(s)]) THEN RStrip(SubSeq(s, 1, Len(s) - 1)) ELSE s

\* str.strip()
Strip(s) == RStrip(LStrip(s))

DigitChar(n) == CASE n = 0 -> "0" [] n = 1 -> "1" [] n = 2 -> "2" [] n = 3 -> "3"
                  [] n = 4 -> "4" [] n = 5 -> "5" [] n = 6 -> "6" [] n = 7 -> "7"
                  [] n = 8 -> "8" [] n = 9 -> "9"

RECURSIVE NatChars(_)
NatChars(n) == IF n < 10 THEN <<DigitChar(n)>> ELSE NatChars(n \div 10) \o <<DigitChar(n % 10)>>

\* str(n) of an int
IntChars(n) == IF n < 0 THEN <<"-">> \o NatChars(0 - n) ELSE NatChars(n)

RECURSIVE ReprSeq(_)
RECURSIVE Repr(_)
\* repr(v), as str() of a list or dict shows its elements
Repr(v) ==
    CASE v.t = "null" -> <<"N", "o", "n", "e">>
      [] v.t = "str"  -> <<"'">> \o v.s \o <<"'">>
      [] v.t = "num"  -> IntChars(v.n)
      [] v.t = "list" -> <<"[">> \o ReprSeq(v.l) \o <<"]">>
      [] v.t = "dict" -> <<"{">> \o (IF DOMAIN v.d = {} THEN <<>> ELSE <<".">>) \o <<"}">>
ReprSeq(l) ==
    IF l = <<>> THEN <<>>
    ELSE IF Len(l) = 1 THEN Repr(l[1])
    ELSE Repr(l[1]) \o <<",", " ">> \o ReprSeq(Tail(l))

\* str(v)
PyStr(v) == IF v.t = "str" THEN v.s ELSE Repr(v)

\* safe_str: strip strings, stringify and strip other values, "" for None
safe_str(val) ==
    IF IsStr(val) THEN Strip(val.s)
    ELSE IF val # None THEN Strip(PyStr(val))
    ELSE <<>>

-----------------------------------------------------------------------------
(* Numbers and lists *)

LowerAlpha == <<"a","b","c","d","e","f","g","h","i","j","k","l","m",
                "n","o","p","q","r","s","t","u","v","w","x","y","z">>
UpperAlpha == <<"A","B","C","D","E","F","G","H","I","J","K","L","M",
                "N","O","P","Q","R","S","T","U","V","W","X","Y","Z">>
DigitChars == {"0","1","2","3","4","5","6","7","8","9"}

IndexIn(c, alpha) == CHOOSE i \in 1..Len(alpha) : alpha[i] = c

UpperChar(c) == IF \E i \in 1..Len(LowerAlpha) : LowerAlpha[i] = c
                THEN UpperAlpha[IndexIn(c, LowerAlpha)] ELSE c
LowerChar(c) == IF \E i \in 1..Len(UpperAlpha) : UpperAlpha[i] = c
                THEN LowerAlpha[IndexIn(c, UpperAlpha)] ELSE c

\* str.upper() and str.lower()
Upper(s) == [i \in 1..Len(s) |-> UpperChar(s[i])]
Lower(s) == [i \in 1..Len(s) |-> LowerChar(s[i])]

\* sub in s
Contains(s, sub) ==
    \E i \in 1..(Len(s) - Len(sub) + 1) : SubSeq(s, i, i + Len(sub) - 1) = sub

HasChar(s, c) == \E i \in 1..Len(s) : s[i] = c

\* re.sub(r'[^\d.]', '', s)
KeepDigitsDot(s) == SelectSeq(s, LAMBDA c : c \in DigitChars \/ c = ".")

DigitVal(c) == CHOOSE n \in 0..9 : DigitChar(n) = c

RECURSIVE DigitsVal(_)
DigitsVal(s) == IF s = <<>> THEN 0 ELSE DigitsVal(SubSeq(s, 1, Len(s) - 1)) * 10 + DigitVal(s[Len(s)])

RECURSIVE Pow10(_)
Pow10(k) == IF k = 0 THEN 1 ELSE 10 * Pow10(k - 1)

DotCount(s) == Len(SelectSeq(s, LAMBDA c : c = "."))

\* float(digits) accepts a string of digits and dots iff it has a digit and at most one dot
FloatOk(digits) == DotCount(digits) <= 1 /\ Len(digits) > DotCount(digits)

DotPos(digits) == IF DotCount(digits) = 0 THEN Len(digits) + 1
                  ELSE CHOOSE i \in 1..Len(digits) : digits[i] = "."

\* int(float(digits) * multiplier), the decimal product truncated toward zero
ScaledInt(digits, multiplier) ==
    LET p == DotPos(digits)
        ip == DigitsVal(SubSeq(digits, 1, p - 1))
        fr == SubSeq(digits, p + 1, Len(digits))
    IN  ip * multiplier + (DigitsVal(fr) * multiplier) \div Pow10(Len(fr))

\* safe_int of normalize_startup_data / normalize_investor_data
safe_int(val, default) ==
    IF val = None THEN default
    ELSE IF IsNum(val) THEN val.n
    ELSE IF IsStr(val) THEN
        LET cleaned == KeepDigitsDot(val.s)
        IN  IF cleaned = <<>> THEN default
            ELSE IF FloatOk(cleaned) THEN ScaledInt(cleaned, 1)
            ELSE default
    ELSE default

\* parse_number of normalize_investor_data
parse_number(value) ==
    IF value = None THEN 0
    ELSE IF IsNum(value) THEN value.n
    ELSE IF IsStr(value) THEN
        LET val == Upper(value.s)
            multiplier == IF HasChar(val, "M") \/ Contains(val, <<"M","I","L","L","I","O","N">>)
                            THEN 1000000
                          ELSE IF HasChar(val, "K") \/ Contains(val, <<"T","H","O","U","S","A","N","D">>)
                            THEN 1000
                          ELSE 1
            digits == KeepDigitsDot(val)
        IN  IF digits = <<>> THEN 0
            ELSE IF FloatOk(digits) THEN ScaledInt(digits, multiplier)
            ELSE 0
    ELSE safe_int(value, 0)

IsDelim(c) == c \in {",", ";", "|"}

\* re.split(r'[,;|]', s): the pieces between delimiters, empty pieces kept
RECURSIVE SplitDelims(_, _, _)
SplitDelims(s, i, cur) ==
    IF i > Len(s) THEN <<cur>>
    ELSE IF IsDelim(s[i]) THEN <<cur>> \o SplitDelims(s, i + 1, <<>>)
    ELSE SplitDelims(s, i + 1, Append(cur, s[i]))

re_split(s) == SplitDelims(s, 1, <<>>)

\* parse_list of the investor, mentor and corporate resolvers
parse_list(value) ==
    IF IsList(value) THEN value.l
    ELSE IF IsStr(value) THEN
        LET pieces == re_split(value.s)
            stripped == [i \in 1..Len(pieces) |-> Str(Strip(pieces[i]))]
        IN  SelectSeq(stripped, LAMBDA x : Len(x.s) > 0)
    ELSE <<>>

\* int(x) as the mentor and corporate resolvers call it: raises on non-numeric text
IntCastOk(v) ==
    \/ IsNum(v)
    \/ /\ IsStr(v)
       /\ LET body == Strip(v.s)
              digs == IF body # <<>> /\ Head(body) \in {"-", "+"} THEN Tail(body) ELSE body
          IN  digs # <<>> /\ \A i \in 1..Len(digs) : digs[i] \in DigitChars

IntCast(v) ==
    IF IsNum(v) THEN v.n
    ELSE LET body == Strip(v.s)
         IN  IF Head(body) = "-" THEN 0 - DigitsVal(Tail(body))
             ELSE IF Head(body) = "+" THEN DigitsVal(Tail(body))
             ELSE DigitsVal(body)

-----------------------------------------------------------------------------
(* Field resolvers.  A resolver returns Ok(record) or Raised when the     *)
(* Python function throws (a failed int()/float() or model validation).   *)
(* Each resolver passes the resolved fields to the constructor of its     *)
(* pydantic model.                                                        *)

Ok(r) == [t |-> "ok", r |-> r]
Raised == [t |-> "exc"]

\* a List[str] field of the pydantic models accepts a list of strings
StrListOk(l) == \A i \in 1..Len(l) : IsStr(l[i])

\* an Optional[str] field accepts None or a string
OptStrOk(v) == v = None \/ IsStr(v)

\* str.split(sep) for a one-character separator
RECURSIVE SplitOn(_, _, _, _)
SplitOn(s, sep, i, cur) ==
    IF i > Len(s) THEN <<cur>>
    ELSE IF s[i] = sep THEN <<cur>> \o SplitOn(s, sep, i + 1, <<>>)
    ELSE SplitOn(s, sep, i + 1, Append(cur, s[i]))

\* str.replace(c, '')
RemoveChar(s, c) == SelectSeq(s, LAMBDA x : x # c)

\* class StartupData
StartupData(companyName, geoMarkets, industry, fundingTarget, fundingStage) ==
    IF ~StrListOk(geoMarkets) THEN Raised
    ELSE Ok([companyName |-> companyName, geoMarkets |-> geoMarkets, industry |-> industry,
             fundingTarget |-> fundingTarget, fundingStage |-> fundingStage,
             availabilityStatus |-> "present"])

\* geo_markets of normalize_startup_data: a string is split and each piece stripped
StartupGeo(geo_raw) ==
    IF IsStr(geo_raw) THEN [i \in 1..Len(re_split(geo_raw.s)) |-> Str(Strip(re_split(geo_raw.s)[i]))]
    ELSE IF IsList(geo_raw) THEN geo_raw.l
    ELSE <<>>

\* funding_target of normalize_startup_data; Raised when float() rejects the digits
StartupFunding(ft_raw) ==
    IF IsStr(ft_raw)
    THEN (IF KeepDigitsDot(ft_raw.s) = <<>> THEN Ok(0)
          ELSE IF FloatOk(KeepDigitsDot(ft_raw.s)) THEN Ok(ScaledInt(KeepDigitsDot(ft_raw.s), 1))
          ELSE Raised)
    ELSE Ok(safe_int(ft_raw, 0))

StartupWithFunding(data, funding) ==
    IF funding = Raised THEN Raised
    ELSE StartupData(safe_str(GetNested(data, <<"companyName", "company_name", "name">>, Str(<<>>))),
                     StartupGeo(GetNested(data, <<"geoMarkets", "geo_markets", "region", "regions",
                                                  "geography">>, Lst(<<>>))),
                     safe_str(GetNested(data, <<"industry", "sector", "startup_industry">>, Str(<<>>))),
                     funding.r,
                     safe_str(GetNested(data, <<"fundingStage", "funding_stage", "stage">>, Str(<<>>))))

normalize_startup_data(data) ==
    StartupWithFunding(data, StartupFunding(GetNested(data, <<"fundingTarget", "funding_target">>, Num(0))))

\* class InvestorData
InvestorData(firmName, memberName, geoFocus, industryPreferences, stagePreferences, tickets, totalSlots, tableNumber) ==
    IF ~StrListOk(geoFocus) \/ ~StrListOk(industryPreferences) \/ ~StrListOk(stagePreferences)
       \/ ~OptStrOk(tableNumber)
    THEN Raised
    ELSE Ok([firmName |-> firmName, memberName |-> memberName, geoFocus |-> geoFocus,
             industryPreferences |-> industryPreferences, stagePreferences |-> stagePreferences,
             minTicketSize |-> tickets[1], maxTicketSize |-> tickets[2],
             totalSlots |-> totalSlots, tableNumber |-> tableNumber,
             availabilityStatus |-> "present"])

\* "A-B": parts = cheque_size_raw.split('-')
DashRangeOf(min_ticket, parts) ==
    <<min_ticket, IF Len(parts) > 1 THEN parse_number(Str(parts[2])) ELSE min_ticket * 10>>

DashRange(parts) == DashRangeOf(parse_number(Str(parts[1])), parts)

\* fault: the bare value is widened like ">A"
RangeFromMinTenfold(min_ticket, factor) == <<min_ticket, min_ticket * 10>>

\* ">A" (factor 10) and the bare value (factor 5)
RangeFromMin(min_ticket, factor) == <<min_ticket, min_ticket * factor>>

\* "<A"
RangeFromMax(max_ticket) == <<max_ticket \div 10, max_ticket>>

\* lines 744-758: <<min_ticket, max_ticket>> of a cheque-size string
ParseRange(cs) ==
    IF HasChar(cs, "-") THEN DashRange(SplitOn(cs, "-", 1, <<>>))
    ELSE IF HasChar(cs, ">") THEN RangeFromMin(parse_number(Str(RemoveChar(cs, ">"))), 10)
    ELSE IF HasChar(cs, "<") THEN RangeFromMax(parse_number(Str(RemoveChar(cs, "<"))))
    ELSE RangeFromMin(parse_number(Str(cs)), 5)

\* lines 744-761: the ticket sizes, from the cheque size or from the plain keys
TicketSizes(data, cheque_size_raw) ==
    IF Truthy(cheque_size_raw) /\ IsStr(cheque_size_raw) THEN ParseRange(cheque_size_raw.s)
    ELSE <<parse_number(GetOr(data, <<"minTicketSize", "min_ticket_size", "minInvestment">>, Num(0))),
           parse_number(GetOr(data, <<"maxTicketSize", "max_ticket_size", "maxInvestment">>, Num(10000000)))>>

\* the first vendor key of member_name starts, in the source, with an eagle emoji
normalize_investor_data(data) ==
    InvestorData(
        safe_str(GetOr(data, <<"firmName", "firm_name", "Investor name", "name", "firm",
                               "Company Name">>, Str(<<>>))),
        safe_str(GetOr(data, <<"memberName", "member_name", "(eagle) [INV] Team Member (users)",
                               "[INV] Team Member (users)", "Team Member", "investment_member",
                               "investorMemberName", "contactName", "partnerName",
                               "personName">>, Str(<<>>))),
        parse_list(GetOr(data, <<"geoFocus", "geo_focus", "Main Geographies Targeted (labels)",
                                 "Location", "geoMarkets", "region", "regions", "geography">>, Lst(<<>>))),
        parse_list(GetOr(data, <<"industryPreferences", "industry_preferences",
                                 "[BD] Vertical Interests / Vertical (labels)",
                                 "Vertical Interests", "industries">>, Lst(<<>>))),
        parse_list(GetOr(data, <<"stagePreferences", "stage_preferences", "stages">>, Lst(<<>>))),
        TicketSizes(data, GetOr(data, <<"[INV] Cheque Size (labels)", "Cheque Size", "Check Size">>,
                                Str(<<>>))),
        safe_int(GetOr(data, <<"totalSlots", "total_slots", "slots">>, Num(3)), 3),
        GetNested(data, <<"tableNumber", "table_number", "table">>, None))

\* class MentorData; total_slots = int(...) raises before the constructor runs
MentorData(fullName, email, linkedinUrl, geoFocus, industryPreferences, expertiseAreas, slots_raw) ==
    IF ~IntCastOk(slots_raw) \/ ~StrListOk(geoFocus) \/ ~StrListOk(industryPreferences)
       \/ ~StrListOk(expertiseAreas)
    THEN Raised
    ELSE Ok([fullName |-> fullName, email |-> email, linkedinUrl |-> linkedinUrl,
             geoFocus |-> geoFocus, industryPreferences |-> industryPreferences,
             expertiseAreas |-> expertiseAreas, totalSlots |-> IntCast(slots_raw),
             availabilityStatus |-> "present"])

normalize_mentor_data(data) ==
    MentorData(
        safe_str(GetOr(data, <<"fullName", "full_name", "Full Name", "name">>, Str(<<>>))),
        safe_str(GetOr(data, <<"email", "Email">>, Str(<<>>))),
        safe_str(GetOr(data, <<"linkedinUrl", "linkedin_url", "LinkedIn URL", "LinkedIn">>, None)),
        parse_list(GetOr(data, <<"geoFocus", "geo_focus", "Location", "region">>, Lst(<<>>))),
        parse_list(GetOr(data, <<"industryPreferences", "industry_preferences",
                                 "Industry Preferences", "industries">>, Lst(<<>>))),
        parse_list(GetOr(data, <<"expertiseAreas", "expertise_areas", "Expertise Areas",
                                 "expertise">>, Lst(<<>>))),
        GetOr(data, <<"totalSlots", "total_slots", "Total Slots">>, Num(3)))

\* class CorporateData; total_slots = int(...) raises before the constructor runs
CorporateData(firmName, contactName, email, geoFocus, industryPreferences, partnershipTypes, stages, slots_raw) ==
    IF ~IntCastOk(slots_raw) \/ ~StrListOk(geoFocus) \/ ~StrListOk(industryPreferences)
       \/ ~StrListOk(partnershipTypes) \/ ~StrListOk(stages)
    THEN Raised
    ELSE Ok([firmName |-> firmName, contactName |-> contactName, email |-> email,
             geoFocus |-> geoFocus, industryPreferences |-> industryPreferences,
             partnershipTypes |-> partnershipTypes, stages |-> stages,
             totalSlots |-> IntCast(slots_raw), availabilityStatus |-> "present"])

normalize_corporate_data(data) ==
    CorporateData(
        safe_str(GetOr(data, <<"firmName", "firm_name", "Company Name", "companyName", "name">>,
                       Str(<<>>))),
        safe_str(GetOr(data, <<"contactName", "contact_name", "Contact Name">>, Str(<<>>))),
        safe_str(GetOr(data, <<"email", "Email">>, None)),
        parse_list(GetOr(data, <<"geoFocus", "geo_focus", "Location", "region">>, Lst(<<>>))),
        parse_list(GetOr(data, <<"industryPreferences", "industry_preferences",
                                 "Industry Preferences", "industries">>, Lst(<<>>))),
        parse_list(GetOr(data, <<"partnershipTypes", "partnership_types", "Partnership Types">>,
                         Lst(<<>>))),
        parse_list(GetOr(data, <<"stages", "Stages">>, Lst(<<>>))),
        GetOr(data, <<"totalSlots", "total_slots", "Total Slots">>, Num(3)))

-----------------------------------------------------------------------------
(* Diagnostics: a warning or error string is its fixed text (kind) and    *)
(* the value interpolated into it.                                        *)

MsgMissingMember(firm) == [kind |-> "Investor missing memberName; using placeholder 'UNKNOWN' for firm", arg |-> Str(firm)]
MsgMentorNoEmail(name) == [kind |-> "Mentor missing email, skipping", arg |-> Str(name)]
MsgCorporateNoContact(firm) == [kind |-> "Corporate missing contact name, skipping", arg |-> Str(firm)]
MsgNonDict(item) == [kind |-> "Skipping non-dict item", arg |-> item]
MsgUnknownType(item) == [kind |-> "Could not determine type for item", arg |-> item]
MsgItemError(what) == [kind |-> "Error processing item", arg |-> Str(what)]
MsgNoValidData == [kind |-> "No valid data extracted", arg |-> None]

UNKNOWN == <<"U", "N", "K", "N", "O", "W", "N">>

\* confidence values, in hundredths
ConfCsv == 95
ConfExtracted == 80
ConfNone == 0

-----------------------------------------------------------------------------
(* Per-item path of convert_data: type detection and conversion of one    *)
(* item, folded over the batch.  The accumulator holds the locals of the  *)
(* loop; applied records, per item, the resolver the item was given to.   *)

HasAnyKey(item, keys) == \E k \in keys : k \in DOMAIN item

has_startup_fields(item) == HasAnyKey(item, {"companyName", "fundingTarget", "fundingStage"})
has_investor_fields(item) == HasAnyKey(item, {"firmName", "minTicketSize", "maxTicketSize", "memberName"})
has_mentor_fields(item) ==
    /\ HasAnyKey(item, {"fullName", "Full Name", "expertiseAreas", "Expertise Areas"})
    /\ HasAnyKey(item, {"email", "Email"})
has_corporate_fields(item) ==
    HasAnyKey(item, {"contactName", "Contact Name", "partnershipTypes", "Partnership Types"})

\* the auto-detection block: the new value of detected_type
DetectType(item, detected_type) ==
    IF has_mentor_fields(item) THEN "mentor"
    ELSE IF has_corporate_fields(item) THEN "corporate"
    ELSE IF has_startup_fields(item) /\ ~has_investor_fields(item) THEN "startup"
    ELSE IF has_investor_fields(item) /\ ~has_startup_fields(item) THEN "investor"
    ELSE IF has_startup_fields(item) /\ has_investor_fields(item)
         THEN (IF "companyName" \in DOMAIN item /\ "fundingTarget" \in DOMAIN item
               THEN "startup" ELSE "investor")
    ELSE detected_type

\* fault: the key tests of the chain are made even when a type hint is given
ChooseResolverUnhinted(item, detected_type, dataType) ==
    IF detected_type = "startup" \/ "companyName" \in DOMAIN item THEN "startup"
    ELSE IF detected_type = "mentor" \/ HasAnyKey(item, {"fullName", "Full Name"}) THEN "mentor"
    ELSE IF detected_type = "corporate" \/ HasAnyKey(item, {"contactName", "Contact Name"})
         THEN "corporate"
    ELSE IF detected_type = "investor" \/ "firmName" \in DOMAIN item THEN "investor"
    ELSE "none"

\* the if/elif chain "Convert based on detected type": the resolver chosen
ChooseResolver(item, detected_type, dataType) ==
    LET nohint == dataType = "none"
    IN  IF detected_type = "startup" \/ (nohint /\ "companyName" \in DOMAIN item) THEN "startup"
        ELSE IF detected_type = "mentor" \/ (nohint /\ HasAnyKey(item, {"fullName", "Full Name"})) THEN "mentor"
        ELSE IF detected_type = "corporate" \/ (nohint /\ HasAnyKey(item, {"contactName", "Contact Name"}))
             THEN "corporate"
        ELSE IF detected_type = "investor" \/ (nohint /\ "firmName" \in DOMAIN item) THEN "investor"
        ELSE "none"

EmptyAcc(detected_type) ==
    [startups |-> <<>>, investors |-> <<>>, mentors |-> <<>>, corporates |-> <<>>,
     warnings |-> <<>>, errors |-> <<>>, detected_type |-> detected_type, applied |-> <<>>]

\* fault: the startup is appended without the test of companyName
KeepStartupUnchecked(acc, res, errtext) ==
    IF res = Raised THEN [acc EXCEPT !.errors = Append(@, MsgItemError(errtext))]
    ELSE [acc EXCEPT !.startups = Append(@, res.r)]

\* `if startup.companyName: startups.append(startup)` and the except branch
KeepStartup(acc, res, errtext) ==
    IF res = Raised THEN [acc EXCEPT !.errors = Append(@, MsgItemError(errtext))]
    ELSE IF res.r.companyName # <<>> THEN [acc EXCEPT !.startups = Append(@, res.r)]
    ELSE acc

\* conversion of one startup item, shared by the wrapper and per-item paths
AddStartup(acc, item, errtext) == KeepStartup(acc, normalize_startup_data(item), errtext)

\* fault: an investor without memberName is appended as it is
KeepInvestorUnnamed(acc, res, errtext) ==
    IF res = Raised THEN [acc EXCEPT !.errors = Append(@, MsgItemError(errtext))]
    ELSE IF res.r.firmName # <<>> THEN [acc EXCEPT !.investors = Append(@, res.r)]
    ELSE acc

\* `if investor.firmName:` with the UNKNOWN placeholder and its warning
KeepInvestor(acc, res, errtext) ==
    IF res = Raised THEN [acc EXCEPT !.errors = Append(@, MsgItemError(errtext))]
    ELSE IF res.r.firmName # <<>>
         THEN IF res.r.memberName = <<>>
              THEN [acc EXCEPT !.investors = Append(@, [res.r EXCEPT !.memberName = UNKNOWN]),
                               !.warnings = Append(@, MsgMissingMember(res.r.firmName))]
              ELSE [acc EXCEPT !.investors = Append(@, res.r)]
    ELSE acc

\* conversion of one investor item, shared by the wrapper and per-item paths
AddInvestor(acc, item, errtext) == KeepInvestor(acc, normalize_investor_data(item), errtext)

\* `if mentor.fullName and mentor.email:` of the wrapper path, without an else
KeepMentorQuiet(acc, res, errtext) ==
    IF res = Raised THEN [acc EXCEPT !.errors = Append(@, MsgItemError(errtext))]
    ELSE IF res.r.fullName # <<>> /\ res.r.email # <<>> THEN [acc EXCEPT !.mentors = Append(@, res.r)]
    ELSE acc

\* mentor item in the wrapper path: no warning when the email is missing
AddMentorQuiet(acc, item, errtext) == KeepMentorQuiet(acc, normalize_mentor_data(item), errtext)

\* `if mentor.fullName and mentor.email: ... elif mentor.fullName:` of the per-item path
KeepMentor(acc, res, errtext) ==
    IF res = Raised THEN [acc EXCEPT !.errors = Append(@, MsgItemError(errtext))]
    ELSE IF res.r.fullName # <<>> /\ res.r.email # <<>> THEN [acc EXCEPT !.mentors = Append(@, res.r)]
    ELSE IF res.r.fullName # <<>>
         THEN [acc EXCEPT !.warnings = Append(@, MsgMentorNoEmail(res.r.fullName))]
    ELSE acc

\* mentor item in the per-item path
AddMentor(acc, item, errtext) == KeepMentor(acc, normalize_mentor_data(item), errtext)

\* `if corp.firmName and corp.contactName:` of the wrapper path, without an else
KeepCorporateQuiet(acc, res, errtext) ==
    IF res = Raised THEN [acc EXCEPT !.errors = Append(@, MsgItemError(errtext))]
    ELSE IF res.r.firmName # <<>> /\ res.r.contactName # <<>>
         THEN [acc EXCEPT !.corporates = Append(@, res.r)]
    ELSE acc

\* corporate item in the wrapper path
AddCorporateQuiet(acc, item, errtext) == KeepCorporateQuiet(acc, normalize_corporate_data(item), errtext)

\* `if corp.firmName and corp.contactName: ... elif corp.firmName:` of the per-item path
KeepCorporate(acc, res, errtext) ==
    IF res = Raised THEN [acc EXCEPT !.errors = Append(@, MsgItemError(errtext))]
    ELSE IF res.r.firmName # <<>> /\ res.r.contactName # <<>>
         THEN [acc EXCEPT !.corporates = Append(@, res.r)]
    ELSE IF res.r.firmName # <<>>
         THEN [acc EXCEPT !.warnings = Append(@, MsgCorporateNoContact(res.r.firmName))]
    ELSE acc

\* corporate item in the per-item path
AddCorporate(acc, item, errtext) == KeepCorporate(acc, normalize_corporate_data(item), errtext)

\* the branch of the if/elif chain taken for the chosen resolver
ConvertAs(acc, v, which) ==
    CASE which = "startup"   -> AddStartup(acc, v.d, <<"i", "t", "e", "m">>)
      [] which = "mentor"    -> AddMentor(acc, v.d, <<"i", "t", "e", "m">>)
      [] which = "corporate" -> AddCorporate(acc, v.d, <<"i", "t", "e", "m">>)
      [] which = "investor"  -> AddInvestor(acc, v.d, <<"i", "t", "e", "m">>)
      [] OTHER -> [acc EXCEPT !.warnings = Append(@, MsgUnknownType(v))]

\* a dict item: detected_type is updated, then the chain is entered
ConvertItem(acc, v, dt, dataType) ==
    ConvertAs([acc EXCEPT !.detected_type = dt,
                          !.applied = Append(@, ChooseResolver(v.d, dt, dataType))],
              v, ChooseResolver(v.d, dt, dataType))

\* one iteration of `for item in parsed_data`
ProcessItem(acc, v, dataType) ==
    IF ~IsDict(v)
    THEN [acc EXCEPT !.warnings = Append(@, MsgNonDict(v)), !.applied = Append(@, "nondict")]
    ELSE ConvertItem(acc, v,
                     IF dataType = "none" THEN DetectType(v.d, acc.detected_type) ELSE acc.detected_type,
                     dataType)

\* the loop `for item in parsed_data`: the locals after the last item
ProcessItems(acc, items, dataType) ==
    LET after[i \in 0..Len(items)] ==
            IF i = 0 THEN acc ELSE ProcessItem(after[i - 1], items[i], dataType)
    IN  after[Len(items)]

AnyRecords(acc) ==
    acc.startups # <<>> \/ acc.investors # <<>> \/ acc.mentors # <<>> \/ acc.corporates # <<>>

\* the ConversionResponse built from the locals.  detectedType is the sequence of
\* the '+'-joined names; path is the code path that built the response
Response(acc, detectedType, confidence, path) ==
    [startups |-> acc.startups, investors |-> acc.investors,
     mentors |-> acc.mentors, corporates |-> acc.corporates,
     detectedType |-> detectedType, confidence |-> confidence,
     warnings |-> acc.warnings, errors |-> acc.errors,
     path |-> path, applied |-> acc.applied]

\* `if not startups and not investors and not mentors and not corporates`
WithNoValidData(acc) ==
    IF AnyRecords(acc) THEN acc ELSE [acc EXCEPT !.errors = Append(@, MsgNoValidData)]

\* confidence=0.8 if (startups or investors) else 0.0
Confidence(acc) == IF acc.startups # <<>> \/ acc.investors # <<>> THEN ConfExtracted ELSE ConfNone

\* lines 1779-1791: the response built after the generic loop
PerItemFinish(acc) == Response(WithNoValidData(acc), <<acc.detected_type>>, Confidence(acc), "items")

\* lines 1709-1791: the generic loop over the lists `colls` the invocation
\* allocated, and the response built after it
PerItemFrom(colls, items, dataType) ==
    PerItemFinish(ProcessItems([colls EXCEPT !.detected_type =
                                    IF dataType = "none" THEN "unknown" ELSE dataType],
                               items, dataType))

\* the generic loop of one invocation of convert_data
PerItemResponse(items, dataType) == PerItemFrom(EmptyAcc("unknown"), items, dataType)

-----------------------------------------------------------------------------
(* Response unwrapper and typed-wrapper path of convert_data *)

\* ensure_list
ensure_list(v) == IF v = None THEN <<>> ELSE IF IsList(v) THEN v.l ELSE <<v>>

\* fault: the elements under a wrapper key go through the per-item detection
WrapItemDetected(acc, v, kind) == ProcessItem(acc, v, "none")

\* the body of one of the four loops over a wrapper key
WrapItem(acc, v, kind) ==
    CASE kind = "startup"   -> AddStartup(acc, v.d, <<"s", "t", "a", "r", "t", "u", "p">>)
      [] kind = "investor"  -> AddInvestor(acc, v.d, <<"i", "n", "v", "e", "s", "t", "o", "r">>)
      [] kind = "mentor"    -> AddMentorQuiet(acc, v.d, <<"m", "e", "n", "t", "o", "r">>)
      [] kind = "corporate" -> AddCorporateQuiet(acc, v.d, <<"c", "o", "r", "p", "o", "r", "a", "t", "e">>)

\* one of the four loops over a wrapper key: non-dict elements are skipped silently
WrapLoop(acc, items, kind) ==
    LET after[i \in 0..Len(items)] ==
            IF i = 0 THEN acc
            ELSE IF ~IsDict(items[i]) THEN after[i - 1]
            ELSE WrapItem(after[i - 1], items[i], kind)
    IN  after[Len(items)]

\* types_found; "+".join(types_found) is kept as the sequence of the joined names
TypesFound(acc) ==
    (IF acc.startups # <<>> THEN <<"startup">> ELSE <<>>)
    \o (IF acc.investors # <<>> THEN <<"investor">> ELSE <<>>)
    \o (IF acc.mentors # <<>> THEN <<"mentor">> ELSE <<>>)
    \o (IF acc.corporates # <<>> THEN <<"corporate">> ELSE <<>>)

\* lines 1687-1700: the response built after the four loops
WrapperFinish(acc) ==
    Response(WithNoValidData(acc),
             IF TypesFound(acc) # <<>> THEN TypesFound(acc) ELSE <<"unknown">>,
             Confidence(acc), "wrapper")

\* lines 1619-1700: the four loops over the lists `colls` the invocation
\* allocated, and the response of the startups/investors wrapper
WrapperFrom(colls, wrapper) ==
    WrapperFinish(
        WrapLoop(
            WrapLoop(
                WrapLoop(
                    WrapLoop(colls, ensure_list(Get(wrapper, "startups")), "startup"),
                    ensure_list(Get(wrapper, "investors")), "investor"),
                ensure_list(Get(wrapper, "mentors")), "mentor"),
            ensure_list(Get(wrapper, "corporates")), "corporate"))

\* the wrapper branch of one invocation of convert_data
WrapperResponse(wrapper) == WrapperFrom(EmptyAcc("unknown"), wrapper)

IsListOrDict(v) == IsList(v) \/ IsDict(v)

\* `for item in parsed_data` needs an iterable: a list, or a string (its characters)
Iterable(v) == IsList(v) \/ IsStr(v)

IterItems(v) == IF IsList(v) THEN v.l ELSE [i \in 1..Len(v.s) |-> Str(<<v.s[i]>>)]

\* lines 1612-1707: what the generic loop iterates over; Raised when the value
\* is not iterable; None when the typed wrapper is handled instead
LoopItems(parsed_data) ==
    IF IsDict(parsed_data)
    THEN (IF IsList(Get(parsed_data.d, "data")) THEN Ok(Get(parsed_data.d, "data").l)
          ELSE IF IsListOrDict(Get(parsed_data.d, "startups"))
                  \/ IsListOrDict(Get(parsed_data.d, "investors"))
               THEN None
          ELSE Ok(<<parsed_data>>))
    ELSE IF Iterable(parsed_data) THEN Ok(IterItems(parsed_data))
    ELSE Raised

\* lines 1607-1791: what convert_data does with the parsed JSON value, given
\* the lists it allocated: Ok(response), or Raised when the loop throws outside
\* the per-item try
ConvertFrom(colls, parsed_data, dataType) ==
    IF LoopItems(parsed_data) = None THEN Ok(WrapperFrom(colls, parsed_data.d))
    ELSE IF LoopItems(parsed_data) = Raised THEN Raised
    ELSE Ok(PerItemFrom(colls, LoopItems(parsed_data).r, dataType))

\* one invocation of convert_data: the lists are allocated empty
ConvertParsed(parsed_data, dataType) == ConvertFrom(EmptyAcc("unknown"), parsed_data, dataType)

-----------------------------------------------------------------------------
(* Direct CSV path.  A table is the list of rows csv.reader yields; a     *)
(* cell is named by its text and Spell gives the characters of the text.  *)

CellTexts == {"", " ", "A", "B", "Investor name", "Team Member", "Full Name", "Email", "Company Name", "Contact Name", "companyName", "Stage", "name", "Region", "5"}

Spell(cell) ==
    CASE cell = "" -> <<>>
      [] cell = " " -> <<" ">>
      [] cell = "A" -> <<"A">>
      [] cell = "B" -> <<"B">>
      [] cell = "Investor name" -> <<"I", "n", "v", "e", "s", "t", "o", "r", " ", "n", "a", "m", "e">>
      [] cell = "Team Member" -> <<"T", "e", "a", "m", " ", "M", "e", "m", "b", "e", "r">>
      [] cell = "Full Name" -> <<"F", "u", "l", "l", " ", "N", "a", "m", "e">>
      [] cell = "Email" -> <<"E", "m", "a", "i", "l">>
      [] cell = "Company Name" -> <<"C", "o", "m", "p", "a", "n", "y", " ", "N", "a", "m", "e">>
      [] cell = "Contact Name" -> <<"C", "o", "n", "t", "a", "c", "t", " ", "N", "a", "m", "e">>
      [] cell = "companyName" -> <<"c", "o", "m", "p", "a", "n", "y", "N", "a", "m", "e">>
      [] cell = "Stage" -> <<"S", "t", "a", "g", "e">>
      [] cell = "name" -> <<"n", "a", "m", "e">>
      [] cell = "Region" -> <<"R", "e", "g", "i", "o", "n">>
      [] cell = "5" -> <<"5">>

\* the header tokens try_direct_csv_parse looks for
T_investor_name == <<"i", "n", "v", "e", "s", "t", "o", "r", " ", "n", "a", "m", "e">>
T_firm_name == <<"f", "i", "r", "m", " ", "n", "a", "m", "e">>
T_team_member == <<"t", "e", "a", "m", " ", "m", "e", "m", "b", "e", "r">>
T_member == <<"m", "e", "m", "b", "e", "r">>
T_company_name == <<"c", "o", "m", "p", "a", "n", "y", " ", "n", "a", "m", "e">>
T_funding == <<"f", "u", "n", "d", "i", "n", "g">>
T_stage == <<"s", "t", "a", "g", "e">>
T_full_name == <<"f", "u", "l", "l", " ", "n", "a", "m", "e">>
T_email == <<"e", "m", "a", "i", "l">>
T_contact_name == <<"c", "o", "n", "t", "a", "c", "t", " ", "n", "a", "m", "e">>
T_contact == <<"c", "o", "n", "t", "a", "c", "t">>
T_fullname == <<"f", "u", "l", "l", "n", "a", "m", "e">>
T_contactname == <<"c", "o", "n", "t", "a", "c", "t", "n", "a", "m", "e">>
T_firmname == <<"f", "i", "r", "m", "n", "a", "m", "e">>
T_companyname == <<"c", "o", "m", "p", "a", "n", "y", "n", "a", "m", "e">>
T_member_name == <<"m", "e", "m", "b", "e", "r", " ", "n", "a", "m", "e">>
T_membername == <<"m", "e", "m", "b", "e", "r", "n", "a", "m", "e">>

AlnumLower(c) == c \in DigitChars \/ \E i \in 1..Len(LowerAlpha) : LowerAlpha[i] = c

\* re.sub(r'\[.*?\]', ' ', s): each '[' up to the next ']' becomes one space
RECURSIVE StripBrackets(_, _)
StripBrackets(s, i) ==
    IF i > Len(s) THEN <<>>
    ELSE IF s[i] = "[" /\ \E j \in (i + 1)..Len(s) : s[j] = "]"
         THEN LET j == CHOOSE j \in (i + 1)..Len(s) : s[j] = "]" /\ \A m \in (i + 1)..(j - 1) : s[m] # "]"
              IN  <<" ">> \o StripBrackets(s, j + 1)
    ELSE <<s[i]>> \o StripBrackets(s, i + 1)

\* re.sub(r'\s+', ' ', s)
RECURSIVE CollapseSpaces(_)
CollapseSpaces(s) ==
    IF s = <<>> THEN <<>>
    ELSE IF IsSpace(Head(s))
         THEN <<" ">> \o CollapseSpaces(LStrip(s))
    ELSE <<Head(s)>> \o CollapseSpaces(Tail(s))

\* normalize_header, on the characters of a cell
normalize_header(value) ==
    IF value = <<>> THEN <<>>
    ELSE LET lowered == Lower(value)
             nobr == StripBrackets(lowered, 1)
             alnum == [i \in 1..Len(nobr) |-> IF AlnumLower(nobr[i]) \/ IsSpace(nobr[i]) THEN nobr[i] ELSE " "]
         IN  Strip(CollapseSpaces(alnum))

InRow(tok, normalized) == \E i \in 1..Len(normalized) : normalized[i] = tok

\* the four header signals of the row scan (lines 1339-1353)
HeaderSignal(normalized) ==
    \/ /\ InRow(T_investor_name, normalized) \/ InRow(T_firm_name, normalized)
       /\ \E i \in 1..Len(normalized) : Contains(normalized[i], T_team_member) \/ normalized[i] = T_member
    \/ /\ InRow(T_company_name, normalized)
       /\ \E i \in 1..Len(normalized) : Contains(normalized[i], T_funding) \/ normalized[i] = T_stage
    \/ InRow(T_full_name, normalized) /\ InRow(T_email, normalized)
    \/ /\ InRow(T_contact_name, normalized) \/ InRow(T_contact, normalized)
       /\ InRow(T_firm_name, normalized) \/ InRow(T_company_name, normalized)

NormalizedRow(row) == [i \in 1..Len(row) |-> normalize_header(Spell(row[i]))]

IsHeaderRow(row) ==
    LET normalized == NormalizedRow(row)
    IN  (\E i \in 1..Len(normalized) : normalized[i] # <<>>) /\ HeaderSignal(normalized)

\* header_idx, 0 for None
HeaderIdx(raw_rows) ==
    IF \E i \in 1..Len(raw_rows) : IsHeaderRow(raw_rows[i])
    THEN CHOOSE i \in 1..Len(raw_rows) :
            IsHeaderRow(raw_rows[i]) /\ \A j \in 1..(i - 1) : ~IsHeaderRow(raw_rows[j])
    ELSE 0

\* the value a header name maps to: with a repeated name the last column wins
LastCol(header, k) == CHOOSE i \in 1..Len(header) : header[i] = k /\ \A j \in (i + 1)..Len(header) : header[j] # k

\* record = {header[i]: row[i] if i < len(row) else ""}
PositionalRecord(header, row) ==
    [k \in {header[i] : i \in 1..Len(header)} |->
        IF LastCol(header, k) <= Len(row) THEN Str(Spell(row[LastCol(header, k)])) ELSE Str(<<>>)]

\* a row of csv.DictReader: missing cells are None (cells beyond the header go
\* under the key None, which no lookup of the resolvers reads)
DictReaderRecord(header, row) ==
    [k \in {header[i] : i \in 1..Len(header)} |->
        IF LastCol(header, k) <= Len(row) THEN Str(Spell(row[LastCol(header, k)])) ELSE None]

\* the rows after a detected header; rows whose cells are all empty are skipped
RowsAfterHeader(raw_rows, header_idx) ==
    LET data_rows == SubSeq(raw_rows, header_idx + 1, Len(raw_rows))
        kept == SelectSeq(data_rows, LAMBDA row : \E i \in 1..Len(row) : row[i] # "")
    IN  [i \in 1..Len(kept) |-> PositionalRecord(raw_rows[header_idx], kept[i])]

\* list(csv.DictReader(...)): first row is the header, blank rows are skipped
RowsDictReader(raw_rows) ==
    LET kept == SelectSeq(Tail(raw_rows), LAMBDA row : row # <<>>)
    IN  [i \in 1..Len(kept) |-> DictReaderRecord(raw_rows[1], kept[i])]

MsgCsvRowError(kind) == [kind |-> "Error parsing row", arg |-> Str(kind)]

\* the resolver of the table's type, applied to one row
CsvResolve(row, kind) ==
    CASE kind = "mentor"    -> normalize_mentor_data(row)
      [] kind = "corporate" -> normalize_corporate_data(row)
      [] kind = "investor"  -> normalize_investor_data(row)
      [] kind = "startup"   -> normalize_startup_data(row)

\* the body of a row loop: keep the record, drop it, or warn about the exception
CsvKeep(acc, res, kind) ==
    IF res = Raised THEN [acc EXCEPT !.warnings = Append(@, MsgCsvRowError(<<kind>>))]
    ELSE CASE kind = "mentor" ->
                IF res.r.fullName # <<>> /\ res.r.email # <<>>
                THEN [acc EXCEPT !.mentors = Append(@, res.r)] ELSE acc
           [] kind = "corporate" ->
                IF res.r.firmName # <<>> /\ res.r.contactName # <<>>
                THEN [acc EXCEPT !.corporates = Append(@, res.r)] ELSE acc
           [] kind = "investor" ->
                IF res.r.firmName # <<>>
                THEN [acc EXCEPT !.investors = Append(@,
                        IF res.r.memberName = <<>> THEN [res.r EXCEPT !.memberName = UNKNOWN] ELSE res.r)]
                ELSE acc
           [] kind = "startup" ->
                IF res.r.companyName # <<>>
                THEN [acc EXCEPT !.startups = Append(@, res.r)] ELSE acc

\* the per-type row loops of the direct CSV path
CsvLoop(acc, rows, kind) ==
    LET after[i \in 0..Len(rows)] ==
            IF i = 0 THEN acc ELSE CsvKeep(after[i - 1], CsvResolve(rows[i], kind), kind)
    IN  after[Len(rows)]

NoResponse == [path |-> "none"]

\* any(h in headers_lower for h in toks)
HasHeader(headers_lower, toks) == \E h \in toks : h \in headers_lower

\* fault: the header tests are made in the opposite order
TypeOfHeadersReversed(headers_lower) ==
    IF HasHeader(headers_lower, {T_company_name, T_companyname})
       /\ HasHeader(headers_lower, {T_funding, T_stage})
    THEN "startup"
    ELSE IF HasHeader(headers_lower, {T_investor_name, T_firm_name, T_firmname})
            /\ HasHeader(headers_lower, {T_member_name, T_membername, T_team_member})
    THEN "investor"
    ELSE IF HasHeader(headers_lower, {T_contact_name, T_contactname})
            /\ HasHeader(headers_lower, {T_firm_name, T_firmname, T_company_name, T_companyname})
    THEN "corporate"
    ELSE IF HasHeader(headers_lower, {T_full_name, T_fullname}) /\ HasHeader(headers_lower, {T_email})
    THEN "mentor"
    ELSE "none"

\* the if/elif chain over the four header tests
TypeOfHeaders(headers_lower) ==
    IF HasHeader(headers_lower, {T_full_name, T_fullname}) /\ HasHeader(headers_lower, {T_email})
    THEN "mentor"
    ELSE IF HasHeader(headers_lower, {T_contact_name, T_contactname})
            /\ HasHeader(headers_lower, {T_firm_name, T_firmname, T_company_name, T_companyname})
    THEN "corporate"
    ELSE IF HasHeader(headers_lower, {T_investor_name, T_firm_name, T_firmname})
            /\ HasHeader(headers_lower, {T_member_name, T_membername, T_team_member})
    THEN "investor"
    ELSE IF HasHeader(headers_lower, {T_company_name, T_companyname})
            /\ HasHeader(headers_lower, {T_funding, T_stage})
    THEN "startup"
    ELSE "none"

\* the table-level type chosen from the keys of the first record (lines 1372-1383)
CsvTableType(first_row) ==
    TypeOfHeaders({normalize_header(Spell(k)) : k \in {x \in DOMAIN first_row : x # ""}})

\* fault: a table without a surviving row is answered with an error
CsvFinishEmpty(acc, kind) == Response(WithNoValidData(acc), <<kind>>, ConfCsv, "csv")

\* `if mentors: return ConversionResponse(...)`, likewise for the other types
CsvFinish(acc, kind) ==
    IF AnyRecords(acc)
    THEN [Response(acc, <<kind>>, ConfCsv, "csv") EXCEPT !.errors = <<>>]
    ELSE NoResponse

\* lines 1393-1477: the branch of the table's type
CsvOfType(rows, kind) ==
    IF kind = "none" THEN NoResponse
    ELSE CsvFinish(CsvLoop(EmptyAcc(kind), rows, kind), kind)

\* lines 1369-1373
CsvOfRows(rows) == IF rows = <<>> THEN NoResponse ELSE CsvOfType(rows, CsvTableType(rows[1]))

\* lines 1355-1367: the records of the table
CsvRows(raw_rows, header_idx) ==
    IF header_idx = 0 THEN RowsDictReader(raw_rows) ELSE RowsAfterHeader(raw_rows, header_idx)

\* try_direct_csv_parse: a response, or NoResponse for None
try_direct_csv_parse(raw_rows) ==
    IF raw_rows = <<>> THEN NoResponse ELSE CsvOfRows(CsvRows(raw_rows, HeaderIdx(raw_rows)))

-----------------------------------------------------------------------------
(* Bounds and input universes *)

MaxItems == 2
MaxRows == 2

\* len(ANTHROPIC_MODEL_FALLBACKS)
NumModels == 6

SA == Str(<<"A">>)
SB == Str(<<"B">>)
SWs == Str(<<" ">>)

D1(k, v) == Dict(k :> v)
D2(k1, v1, k2, v2) == Dict((k1 :> v1) @@ (k2 :> v2))
D3(k1, v1, k2, v2, k3, v3) == Dict((k1 :> v1) @@ (k2 :> v2) @@ (k3 :> v3))

\* sequences over S of length at most n
RECURSIVE SeqsUpTo(_, _)
SeqsUpTo(S, n) == IF n = 0 THEN {<<>>} ELSE SeqsUpTo(S, n - 1) \cup {Append(q, x) : q \in SeqsUpTo(S, n - 1), x \in S}

\* items of batches of several items
CoreItems ==
    { D1("companyName", SA), D1("companyName", SWs),
      D1("firmName", SA), D1("firmName", SWs),
      D2("fullName", SA, "email", SB), D1("fullName", SA),
      D2("companyName", SA, "firmName", SB),
      D1("name", SA),
      D3("fullName", SA, "email", SB, "totalSlots", Str(<<"x">>)) }

\* items of one-item batches
Items ==
    CoreItems \cup
    { D2("firmName", SA, "memberName", SB), D2("firmName", SA, "memberName", SWs),
      D1("memberName", SA),
      D2("contactName", SA, "firmName", SB), D1("contactName", SA),
      D2("firmName", SB, "contactName", SWs),
      D2("contactName", SA, "companyName", SB),
      D3("companyName", SA, "fundingTarget", Num(5), "firmName", SB),
      D3("fullName", SA, "email", SB, "companyName", SA),
      D2("firmName", SA, "fullName", SB),
      D2("fullName", SWs, "email", SB),
      D1("fundingTarget", Str(<<"1", ".", "2", ".", "3">>)),
      D2("companyName", SA, "fundingTarget", Num(0 - 5)),
      D2("firmName", SA, "totalSlots", Num(0 - 1)),
      D2("companyName", SA, "region", Str(<<"A", ",">>)),
      D2("firmName", SA, "region", Str(<<"A", ",">>)),
      Dict(EmptyDict), Num(7), SA }

WrapStartups == SeqsUpTo({D1("companyName", SA), D1("companyName", SWs)}, MaxItems)
WrapInvestors == SeqsUpTo({D1("firmName", SA), D1("firmName", SWs)}, MaxItems)

\* the values a wrapper key may hold; Absent is the key missing from the object
Absent == [t |-> "absent"]
StartupsVals == {Absent, D1("companyName", SB)} \cup {Lst(l) : l \in WrapStartups}
InvestorsVals == {Absent, None, D2("firmName", SA, "memberName", SB)} \cup {Lst(l) : l \in WrapInvestors}
MentorsVals == {Absent, Lst(<<D2("fullName", SA, "email", SB)>>), Lst(<<D1("fullName", SA)>>), Lst(<<Num(7)>>)}
CorporatesVals == {Absent, Lst(<<D2("contactName", SA, "firmName", SB)>>), D1("firmName", SA)}

WrapperOf(sv, iv, mv, cv) ==
    LET keys == (IF sv = Absent THEN {} ELSE {"startups"}) \cup (IF iv = Absent THEN {} ELSE {"investors"})
                \cup (IF mv = Absent THEN {} ELSE {"mentors"}) \cup (IF cv = Absent THEN {} ELSE {"corporates"})
    IN  Dict([k \in keys |-> CASE k = "startups" -> sv [] k = "investors" -> iv
                               [] k = "mentors" -> mv [] k = "corporates" -> cv])

Wrappers == {WrapperOf(sv, iv, mv, cv) : sv \in StartupsVals, iv \in InvestorsVals,
                                         mv \in MentorsVals, cv \in CorporatesVals}

DataWrappers == {D1("data", Lst(l)) : l \in SeqsUpTo({D1("companyName", SA), D1("firmName", SA), Num(7)}, MaxItems)}
                \cup {D1("data", SA), D2("data", None, "companyName", SA)}

Scalars == {None, Num(7), Num(0), Str(<<"A", "B">>), Str(<<>>)}

\* the values the extraction service's text may parse to
JsonValues ==
    {Lst(l) : l \in SeqsUpTo(CoreItems, MaxItems)} \cup {Lst(<<x>>) : x \in Items}
    \cup {x \in Items : IsDict(x)} \cup Wrappers \cup DataWrappers \cup Scalars

\* a cross-section of JsonValues: one value of each shape
JsonValuesSmall ==
    {Lst(<<D1("companyName", SA), D1("firmName", SA)>>), Lst(<<>>), None,
     D2("companyName", SA, "firmName", SB),
     D1("data", Lst(<<D1("firmName", SWs)>>)),
     WrapperOf(Lst(<<D1("companyName", SA)>>), Lst(<<D1("firmName", SA)>>), Absent, Absent)}

DataTypes == {"none", "startup", "investor", "mentor", "corporate"}

HeaderRows ==
    { <<"Investor name", "Team Member">>, <<"Full Name", "Email">>, <<"companyName", "Stage">>,
      <<"Company Name", "Contact Name">>, <<"name", "Region">> }

DataRows == { <<"A", "B">>, <<"A", "">>, <<"", "B">> }
OddRows == { <<" ", "B">>, <<"A">>, <<"A", " ">>, <<>>, <<"", "">> }

\* header rows that carry the signals of two types
WideHeaderRows ==
    { <<"companyName", "Stage", "Investor name", "Team Member">>,
      <<"Full Name", "Email", "Company Name", "Contact Name">>,
      <<"Company Name", "Contact Name", "Investor name", "Team Member">> }

\* a header row and at most MaxRows data rows; a header row and one unusual
\* row; a header row after a blank line; a header row of two types and one row
Tables ==
    {<<h>> \o rows : h \in HeaderRows, rows \in SeqsUpTo(DataRows, MaxRows)}
    \cup {<<h, r, <<"A", "B">>>> : h \in HeaderRows, r \in OddRows}
    \cup {<<<<>>, <<"Full Name", "Email">>>> \o rows : rows \in SeqsUpTo(DataRows, 1)}
    \cup {<<h, <<"A", "B", "A", "B">>>> : h \in WideHeaderRows}
    \cup {<<>>}

NoTable == <<>>

TextRequests == {[format |-> "text", dataType |-> dt, data |-> NoTable] : dt \in DataTypes}
CsvRequests == {[format |-> "csv", dataType |-> dt, data |-> tb] : dt \in {"none", "startup"}, tb \in Tables}

\* CONVERTER_PROVIDER, whether ANTHROPIC_API_KEY is set, whether the configured URL
\* is the canonical endpoint
Configs ==
    { [provider |-> "claude", key_set |-> TRUE,  url_default |-> TRUE],
      [provider |-> "claude", key_set |-> TRUE,  url_default |-> FALSE],
      [provider |-> "claude", key_set |-> FALSE, url_default |-> TRUE],
      [provider |-> "ollama", key_set |-> TRUE,  url_default |-> TRUE],
      [provider |-> "ollama", key_set |-> FALSE, url_default |-> TRUE] }

\* the requests and configurations explored: text requests under every
\* configuration, CSV requests under one configuration of each provider
Scenarios ==
    (TextRequests \X Configs)
    \cup (CsvRequests \X { [provider |-> "claude", key_set |-> TRUE,  url_default |-> TRUE],
                           [provider |-> "ollama", key_set |-> FALSE, url_default |-> TRUE] })

-----------------------------------------------------------------------------
(* The conversion orchestrator convert_data as a state machine.  Steps    *)
(* are separated by its calls to the extraction service.                  *)
(*   pc        position of the request: start, post / repost (inside      *)
(*             call_anthropic, awaiting client.post), ollama_list,        *)
(*             chat (inside client.chat), done, raised                    *)
(*   attempt   1 for the initial extraction call, 2 for the retry         *)
(*   calls     calls of call_anthropic / client.chat made so far          *)
(*   inflight  extraction calls in progress                               *)
(*   model_idx position in the loop over ANTHROPIC_MODEL_FALLBACKS        *)
(*   failed    a request to the extraction service met a transport,       *)
(*             timeout or authentication failure                          *)
(*   request_after_failure  a request was sent to the service after that  *)
(*   reply     what the last request to the service came back with:      *)
(*             transport, status404, auth, other, empty, unparseable,     *)
(*             parsed; none before the first reply                        *)
(*   parsed    the value parse_ollama_response returned, Unparsed before  *)
(*   resp      the ConversionResponse returned, NoResponse before         *)
(*   status    HTTP status: 0 while running, 200, or the raised code      *)
(*   pair      the locals of two concurrent requests (SpecPair below)     *)
(*   call      one call of a function of the module (SpecCalls below)     *)
(*   sent      the payload of the extraction call begun last              *)

VARIABLES pc, req, cfg, attempt, calls, inflight, model_idx, failed,
          request_after_failure, reply, parsed, resp, status, pair, call, sent

vars == <<pc, req, cfg, attempt, calls, inflight, model_idx, failed,
          request_after_failure, reply, parsed, resp, status, pair, call, sent>>

\* pair is used by the two-request specification only
NoPair == <<>>

\* call is used by the specification of the module's functions only
NoCall == <<>>

\* max_tokens of the payload of call_anthropic
ClaudeMaxTokens == 4096

\* num_predict of chat_kwargs and of retry_kwargs
ChatNumPredict == 4096
RetryNumPredict == 8192

\* no extraction call was begun yet
NoPayload == [max_tokens |-> 0, prompt |-> <<>>]

\* create_conversion_prompt(request.data, request.dataType)
ConversionPrompt == <<"conversion prompt">>

\* retry_prompt: the JSON-only instruction, then the conversion prompt
RetryPrompt == <<"Return ONLY valid JSON">> \o ConversionPrompt

\* lines 488-496: the payload call_anthropic posts for a prompt
AnthropicPayload(prompt) == [max_tokens |-> ClaudeMaxTokens, prompt |-> prompt]

\* lines 1554-1565: chat_kwargs
ChatPayload == [max_tokens |-> ChatNumPredict, prompt |-> ConversionPrompt]

\* lines 1581-1596: the retry of either path
RetryPayload(retry_pc) ==
    IF retry_pc = "post" THEN AnthropicPayload(RetryPrompt)
    ELSE [max_tokens |-> RetryNumPredict, prompt |-> RetryPrompt]

Unparsed == [t |-> "unparsed"]

UseClaude == cfg.provider = "claude" \/ cfg.key_set

\* the values a reply may parse to: every value of JsonValues for a text request
\* on the Ollama path, the cross-section JsonValuesSmall elsewhere
Replies == IF req.format = "text" /\ ~UseClaude THEN JsonValues ELSE JsonValuesSmall

Init ==
    /\ pc = "start"
    /\ \E sc \in Scenarios : req = sc[1] /\ cfg = sc[2]
    /\ attempt = 1
    /\ calls = 0
    /\ inflight = 0
    /\ model_idx = 0
    /\ failed = FALSE
    /\ request_after_failure = FALSE
    /\ reply = "none"
    /\ parsed = Unparsed
    /\ resp = NoResponse
    /\ status = 0
    /\ pair = NoPair
    /\ call = NoCall
    /\ sent = NoPayload

\* fault: the direct CSV attempt is not made
DirectCsvSkipped == NoResponse

\* lines 1490-1498
DirectCsv == IF req.format = "csv" THEN try_direct_csv_parse(req.data) ELSE NoResponse

\* the request returns the direct CSV result
ReturnDirectCsv ==
    /\ pc = "start"
    /\ DirectCsv # NoResponse
    /\ resp' = DirectCsv
    /\ pc' = "done"
    /\ status' = 200
    /\ UNCHANGED <<sent, call, pair, req, cfg, attempt, calls, inflight, model_idx, failed,
                   request_after_failure, reply, parsed>>

\* Claude path: call_anthropic(prompt) is entered and reaches its first client.post
BeginClaude ==
    /\ pc = "start"
    /\ DirectCsv = NoResponse
    /\ UseClaude /\ cfg.key_set
    /\ pc' = "post"
    /\ calls' = calls + 1
    /\ inflight' = inflight + 1
    /\ model_idx' = 1
    /\ sent' = AnthropicPayload(ConversionPrompt)
    /\ UNCHANGED <<call, pair, req, cfg, attempt, failed, request_after_failure, reply, parsed, resp, status>>

\* Claude path without an API key: call_anthropic raises 503 before any request
BeginClaudeNoKey ==
    /\ pc = "start"
    /\ DirectCsv = NoResponse
    /\ UseClaude /\ ~cfg.key_set
    /\ pc' = "raised"
    /\ status' = 503
    /\ calls' = calls + 1
    /\ UNCHANGED <<sent, call, pair, req, cfg, attempt, inflight, model_idx, failed, request_after_failure,
                   reply, parsed, resp>>

\* Ollama path: await fetch_ollama_model_names()
BeginOllama ==
    /\ pc = "start"
    /\ DirectCsv = NoResponse
    /\ ~UseClaude
    /\ pc' = "ollama_list"
    /\ UNCHANGED <<sent, call, pair, req, cfg, attempt, calls, inflight, model_idx, failed,
                   request_after_failure, reply, parsed, resp, status>>

\* a request leaves for the extraction service and comes back with `kind`
Request(kind) ==
    /\ request_after_failure' = (request_after_failure \/ failed)
    /\ reply' = kind

\* the request ends with an HTTPException
Raise(code) ==
    /\ pc' = "raised"
    /\ status' = code
    /\ inflight' = 0
    /\ model_idx' = 0

\* the loop of call_anthropic moves to the next fallback model, or ends with 502
NextModel ==
    IF model_idx < NumModels
    THEN /\ model_idx' = model_idx + 1
         /\ pc' = "post"
         /\ UNCHANGED <<inflight, status>>
    ELSE Raise(502)

\* fault: no retry, the first unparseable text is fatal
TextUnparseableNoRetry(retry_pc) ==
    /\ Raise(500)
    /\ UNCHANGED <<sent, attempt, calls, parsed, resp>>

\* fault: the retry is itself retried
TextUnparseableAgain(retry_pc) ==
    /\ attempt' = 2
    /\ calls' = calls + 1
    /\ pc' = retry_pc
    /\ model_idx' = IF retry_pc = "post" THEN 1 ELSE model_idx
    /\ sent' = RetryPayload(retry_pc)
    /\ UNCHANGED <<inflight, status, parsed, resp>>

\* the extraction call returned text that parse_ollama_response rejects:
\* the first time the retry call is made, the second time the error is fatal
TextUnparseable(retry_pc) ==
    IF attempt = 1
    THEN /\ attempt' = 2
         /\ calls' = calls + 1
         /\ pc' = retry_pc
         /\ model_idx' = IF retry_pc = "post" THEN 1 ELSE model_idx
         /\ sent' = RetryPayload(retry_pc)
         /\ UNCHANGED <<inflight, status, parsed, resp>>
    ELSE /\ Raise(500)
         /\ UNCHANGED <<sent, attempt, calls, parsed, resp>>

\* the end of convert_data: the response is returned, or the exception of the
\* loop is turned into HTTPException(500) by the outer except
Return(out) ==
    IF out = Raised
    THEN Raise(500) /\ UNCHANGED resp
    ELSE /\ resp' = out.r
         /\ pc' = "done"
         /\ status' = 200
         /\ inflight' = 0
         /\ model_idx' = 0

\* the extraction call returned text that parses to v: lines 1607-1796
TextParsed(v) ==
    /\ parsed' = v
    /\ Return(ConvertParsed(v, req.dataType))
    /\ UNCHANGED <<sent, attempt, calls>>

\* client.post raises (connection error, timeout): convert_data raises 500
PostTransportError ==
    /\ pc \in {"post", "repost"}
    /\ Request("transport")
    /\ failed' = TRUE
    /\ Raise(500)
    /\ UNCHANGED <<sent, call, pair, req, cfg, attempt, calls, parsed, resp>>

\* 404 from a non-canonical URL: the same payload is posted to the canonical endpoint
Post404Repost ==
    /\ pc = "post"
    /\ ~cfg.url_default
    /\ Request("status404")
    /\ pc' = "repost"
    /\ UNCHANGED <<sent, call, pair, req, cfg, attempt, calls, inflight, model_idx, failed, parsed, resp, status>>

\* 404 with a model-not-found body: next fallback model
Post404ModelNotFound ==
    /\ pc = "repost" \/ (pc = "post" /\ cfg.url_default)
    /\ Request("status404")
    /\ NextModel
    /\ UNCHANGED <<sent, call, pair, req, cfg, attempt, calls, failed, parsed, resp>>

\* any other 404: raise 502
Post404Other ==
    /\ pc = "repost" \/ (pc = "post" /\ cfg.url_default)
    /\ Request("status404")
    /\ Raise(502)
    /\ UNCHANGED <<sent, call, pair, req, cfg, attempt, calls, failed, parsed, resp>>

\* 401/403: raise_for_status raises httpx.HTTPError, the loop continues
PostAuthError ==
    /\ pc \in {"post", "repost"}
    /\ Request("auth")
    /\ failed' = TRUE
    /\ NextModel
    /\ UNCHANGED <<sent, call, pair, req, cfg, attempt, calls, parsed, resp>>

\* another error status (429, 5xx), or 200 without content: the loop continues
PostOtherError ==
    /\ pc \in {"post", "repost"}
    /\ Request("other")
    /\ NextModel
    /\ UNCHANGED <<sent, call, pair, req, cfg, attempt, calls, failed, parsed, resp>>

\* 200 with text that does not parse
PostTextUnparseable ==
    /\ pc \in {"post", "repost"}
    /\ Request("unparseable")
    /\ TextUnparseable("post")
    /\ UNCHANGED <<call, pair, req, cfg, failed>>

\* 200 with text that parses
PostTextParsed ==
    /\ pc \in {"post", "repost"}
    /\ Request("parsed")
    /\ \E v \in Replies : TextParsed(v)
    /\ UNCHANGED <<call, pair, req, cfg, failed>>

\* fetch_ollama_model_names and the client.list() fallback found a model: the
\* first client.chat call begins
OllamaModelsFound ==
    /\ pc = "ollama_list"
    /\ pc' = "chat"
    /\ calls' = calls + 1
    /\ inflight' = inflight + 1
    /\ sent' = ChatPayload
    /\ UNCHANGED <<call, pair, req, cfg, attempt, model_idx, failed, request_after_failure,
                   reply, parsed, resp, status>>

\* Ollama not reachable or no model installed: raise 503
OllamaNoModels ==
    /\ pc = "ollama_list"
    /\ Raise(503)
    /\ UNCHANGED <<sent, call, pair, req, cfg, attempt, calls, failed, request_after_failure, reply, parsed, resp>>

\* client.chat raises (a client without the format argument raises TypeError
\* before sending and the call is repeated without it: one request either way)
ChatTransportError ==
    /\ pc = "chat"
    /\ Request("transport")
    /\ failed' = TRUE
    /\ Raise(500)
    /\ UNCHANGED <<sent, call, pair, req, cfg, attempt, calls, parsed, resp>>

\* the chat response has no string content: raise 502
ChatEmptyContent ==
    /\ pc = "chat"
    /\ Request("empty")
    /\ Raise(502)
    /\ UNCHANGED <<sent, call, pair, req, cfg, attempt, calls, failed, parsed, resp>>

ChatTextUnparseable ==
    /\ pc = "chat"
    /\ Request("unparseable")
    /\ TextUnparseable("chat")
    /\ UNCHANGED <<call, pair, req, cfg, failed>>

ChatTextParsed ==
    /\ pc = "chat"
    /\ Request("parsed")
    /\ \E v \in Replies : TextParsed(v)
    /\ UNCHANGED <<call, pair, req, cfg, failed>>

Next ==
    \/ ReturnDirectCsv
    \/ BeginClaude
    \/ BeginClaudeNoKey
    \/ BeginOllama
    \/ PostTransportError
    \/ Post404Repost
    \/ Post404ModelNotFound
    \/ Post404Other
    \/ PostAuthError
    \/ PostOtherError
    \/ PostTextUnparseable
    \/ PostTextParsed
    \/ OllamaModelsFound
    \/ OllamaNoModels
    \/ ChatTransportError
    \/ ChatEmptyContent
    \/ ChatTextUnparseable
    \/ ChatTextParsed

Spec == Init /\ [][Next]_vars


-----------------------------------------------------------------------------
(* Properties of convert_data *)

Done == pc = "done"

\* the number of records of a response
Kept(r) == Len(r.startups) + Len(r.investors) + Len(r.mentors) + Len(r.corporates)

\* the number of entries of seq of one of the kinds
CountKinds(seq, kinds) == Cardinality({i \in 1..Len(seq) : seq[i].kind \in kinds})

\* the number of dicts among the elements of seq
CountDicts(seq) == Cardinality({i \in 1..Len(seq) : IsDict(seq[i])})

\* C1: in every response returned, on the direct CSV, typed-wrapper and per-item
\* paths, each startup has a non-empty companyName, each investor a non-empty
\* firmName and memberName, each mentor a non-empty fullName and email, each
\* corporate a non-empty firmName and contactName.
C1_RequiredFieldsNonEmpty ==
    Done =>
        /\ \A i \in 1..Len(resp.startups) : resp.startups[i].companyName # <<>>
        /\ \A i \in 1..Len(resp.investors) :
              resp.investors[i].firmName # <<>> /\ resp.investors[i].memberName # <<>>
        /\ \A i \in 1..Len(resp.mentors) :
              resp.mentors[i].fullName # <<>> /\ resp.mentors[i].email # <<>>
        /\ \A i \in 1..Len(resp.corporates) :
              resp.corporates[i].firmName # <<>> /\ resp.corporates[i].contactName # <<>>

\* a wrapper response that kept one startup and dropped another with a blank name
C1_Witness ==
    /\ Done /\ resp.path = "wrapper"
    /\ parsed = WrapperOf(Lst(<<D1("companyName", SA), D1("companyName", SWs)>>), Absent, Absent, Absent)
    /\ Len(resp.startups) = 1

\* C2: once the extraction call has returned text that parses as JSON, the
\* request never ends in an exception, whatever the parsed value is.
C2_NeverRaisesOnceParsed == parsed # Unparsed => pc # "raised"

\* C3: an unparseable first reply is followed by exactly one more extraction
\* call; an unparseable reply to that retry ends the request with an exception
\* and no response; a parseable reply to the retry is processed as the result.
C3_RetryExactlyOnce ==
    [][ /\ (pc \in {"post", "repost", "chat"} /\ reply' = "unparseable") =>
              IF attempt = 1
              THEN /\ attempt' = 2 /\ calls' = calls + 1
                   /\ pc' \in {"post", "chat"} /\ status' = 0 /\ resp' = NoResponse
              ELSE /\ attempt' = 2 /\ calls' = calls
                   /\ pc' = "raised" /\ resp' = NoResponse
        /\ (pc \in {"post", "repost", "chat"} /\ reply' = "parsed" /\ attempt = 2) =>
              /\ parsed' # Unparsed
              /\ ConvertParsed(parsed', req.dataType) # Raised =>
                    pc' = "done" /\ resp' = ConvertParsed(parsed', req.dataType).r
      ]_vars

\* the retry's value became the response
C3_Witness == Done /\ attempt = 2 /\ reply = "parsed" /\ calls = 2 /\ Kept(resp) > 0

C5_DirectCsvReturned ==
    (req.format = "csv" /\ try_direct_csv_parse(req.data) # NoResponse) =>
        /\ pc \in {"start", "done"}
        /\ calls = 0 /\ reply = "none"
        /\ Done => resp = try_direct_csv_parse(req.data)

\* a request answered from the table alone
C5_Witness == Done /\ req.format = "csv" /\ resp.path = "csv" /\ calls = 0

\* C6: after a transport, timeout or authentication failure no further request
\* is sent to the extraction service.
C6_NoRequestAfterFailure == ~request_after_failure

\* the input records of the response: rows of the table, dict elements of the
\* wrapper's lists, dict items of the batch
InputRecords ==
    CASE resp.path = "csv" -> Len(CsvRows(req.data, HeaderIdx(req.data)))
      [] resp.path = "wrapper" ->
            CountDicts(ensure_list(Get(parsed.d, "startups")))
            + CountDicts(ensure_list(Get(parsed.d, "investors")))
            + CountDicts(ensure_list(Get(parsed.d, "mentors")))
            + CountDicts(ensure_list(Get(parsed.d, "corporates")))
      [] resp.path = "items" -> CountDicts(LoopItems(parsed).r)

\* the diagnostics about a record that is not in the response
DropKinds ==
    {"Mentor missing email, skipping", "Corporate missing contact name, skipping",
     "Could not determine type for item", "Error processing item", "Error parsing row"}

\* C7: every input record that is not in the response has exactly one diagnostic
\* in warnings or errors.
C7_EveryDropReported ==
    Done => CountKinds(resp.warnings, DropKinds) + CountKinds(resp.errors, DropKinds)
                = InputRecords - Kept(resp)

\* C8: on every path, for each firm the warnings hold exactly one entry naming
\* the firm for each of its investors whose memberName is the UNKNOWN placeholder.
C8_UnknownMemberWarned ==
    Done =>
        \A i \in 1..Len(resp.investors) :
            resp.investors[i].memberName = UNKNOWN =>
                Cardinality({j \in 1..Len(resp.warnings) :
                                resp.warnings[j] = MsgMissingMember(resp.investors[i].firmName)})
                = Cardinality({k \in 1..Len(resp.investors) :
                                /\ resp.investors[k].memberName = UNKNOWN
                                /\ resp.investors[k].firmName = resp.investors[i].firmName})

\* the priority over the discriminator keys of an item
PriorityType(item) ==
    IF has_mentor_fields(item) THEN "mentor"
    ELSE IF has_corporate_fields(item) THEN "corporate"
    ELSE IF has_startup_fields(item) /\ ~has_investor_fields(item) THEN "startup"
    ELSE IF has_investor_fields(item) /\ ~has_startup_fields(item) THEN "investor"
    ELSE IF "companyName" \in DOMAIN item /\ "fundingTarget" \in DOMAIN item THEN "startup"
    ELSE "investor"

\* some discriminator set matches the item
Discriminated(item) ==
    has_mentor_fields(item) \/ has_corporate_fields(item)
    \/ has_startup_fields(item) \/ has_investor_fields(item)

\* C9: without a type hint, the resolver applied to an item of the per-item path
\* is the one the priority over its keys selects.
C9_ResolverFollowsPriority ==
    (Done /\ resp.path = "items" /\ req.dataType = "none") =>
        \A i \in 1..Len(LoopItems(parsed).r) :
            (IsDict(LoopItems(parsed).r[i]) /\ Discriminated(LoopItems(parsed).r[i].d)) =>
                resp.applied[i] = PriorityType(LoopItems(parsed).r[i].d)

OtherRecords(r, dataType) ==
    (IF dataType = "startup" THEN 0 ELSE Len(r.startups))
    + (IF dataType = "investor" THEN 0 ELSE Len(r.investors))
    + (IF dataType = "mentor" THEN 0 ELSE Len(r.mentors))
    + (IF dataType = "corporate" THEN 0 ELSE Len(r.corporates))

\* C10: with a type hint, every dict item of the per-item path is given to the
\* hinted type's resolver and the response holds no record of another type.
C10_HintedResolverOnly ==
    (Done /\ resp.path = "items" /\ req.dataType # "none") =>
        /\ \A i \in 1..Len(resp.applied) : resp.applied[i] \in {req.dataType, "nondict"}
        /\ OtherRecords(resp, req.dataType) = 0
        /\ resp.detectedType = <<req.dataType>>

\* an item with the keys of a startup and of an investor, converted under the
\* investor hint
C10_Witness ==
    /\ Done /\ resp.path = "items" /\ req.dataType = "investor"
    /\ parsed = D2("companyName", SA, "firmName", SB)
    /\ Len(resp.investors) = 1 /\ resp.investors[1].firmName = <<"B">>

\* the items the generic loop went over
LoopedItems == LoopItems(parsed).r

\* C11: without a type hint, a dict item of the per-item path none of whose keys
\* matches a discriminator set goes to no resolver, wherever it stands in the
\* batch, and warnings holds the could-not-determine-type entry for it.
C11_UnmatchedItemDropped ==
    (Done /\ resp.path = "items" /\ req.dataType = "none") =>
        \A i \in 1..Len(LoopedItems) :
            (IsDict(LoopedItems[i]) /\ ~Discriminated(LoopedItems[i].d)) =>
                /\ resp.applied[i] = "none"
                /\ \E j \in 1..Len(resp.warnings) : resp.warnings[j] = MsgUnknownType(LoopedItems[i])

\* the parsed value is an object with a startups or investors key holding a list
\* or an object, and no list under data
IsWrapperReply ==
    /\ IsDict(parsed)
    /\ ~IsList(Get(parsed.d, "data"))
    /\ \/ IsList(Get(parsed.d, "startups")) \/ IsDict(Get(parsed.d, "startups"))
       \/ IsList(Get(parsed.d, "investors")) \/ IsDict(Get(parsed.d, "investors"))

\* the record the investor resolver and the placeholder rule give for an element
InvestorOf(res) ==
    IF res # Raised /\ res.r.memberName = <<>> THEN Ok([res.r EXCEPT !.memberName = UNKNOWN]) ELSE res

\* every record of recs is what Resolve gives for a dict element under key
AllFromKey(recs, key, Resolve(_)) ==
    /\ Len(recs) <= CountDicts(ensure_list(Get(parsed.d, key)))
    /\ \A i \in 1..Len(recs) :
          \E j \in 1..Len(ensure_list(Get(parsed.d, key))) :
              /\ IsDict(ensure_list(Get(parsed.d, key))[j])
              /\ Resolve(ensure_list(Get(parsed.d, key))[j].d) = Ok(recs[i])

ResolveInvestor(item) == InvestorOf(normalize_investor_data(item))

\* C12: for a startups/investors wrapper the per-item detection is bypassed: the
\* records of each collection come from the elements under its own key through
\* that type's resolver, whatever the type hint, and the confidence is 0.8 when
\* a startup or an investor was produced and 0.0 otherwise.
C12_WrapperBypassesDetection ==
    (pc \in {"done", "raised"} /\ parsed # Unparsed /\ IsWrapperReply) =>
        /\ Done /\ resp.path = "wrapper" /\ resp.applied = <<>>
        /\ AllFromKey(resp.startups, "startups", normalize_startup_data)
        /\ AllFromKey(resp.investors, "investors", ResolveInvestor)
        /\ AllFromKey(resp.mentors, "mentors", normalize_mentor_data)
        /\ AllFromKey(resp.corporates, "corporates", normalize_corporate_data)
        /\ resp.confidence = IF resp.startups # <<>> \/ resp.investors # <<>>
                             THEN ConfExtracted ELSE ConfNone

\* a wrapper answered under the investor hint: the startup under startups is
\* kept, the firm under corporates is not turned into an investor
C12_Witness ==
    /\ Done /\ req.dataType = "investor"
    /\ parsed = WrapperOf(Lst(<<D1("companyName", SA)>>), Absent, Absent, D1("firmName", SA))
    /\ Len(resp.startups) = 1 /\ resp.investors = <<>> /\ resp.confidence = ConfExtracted

\* C13: the confidence of a response is 0.95 for a direct CSV result, 0.8 when
\* the extraction path produced at least one record of any of the four types,
\* and 0.0 otherwise.
C13_ConfidenceByRecords ==
    Done => resp.confidence = IF resp.path = "csv" THEN ConfCsv
                              ELSE IF Kept(resp) > 0 THEN ConfExtracted
                              ELSE ConfNone

\* the names of the types whose collection holds a record
TypesWithRecords(r) ==
    (IF r.startups # <<>> THEN {"startup"} ELSE {})
    \cup (IF r.investors # <<>> THEN {"investor"} ELSE {})
    \cup (IF r.mentors # <<>> THEN {"mentor"} ELSE {})
    \cup (IF r.corporates # <<>> THEN {"corporate"} ELSE {})

\* C14: the detectedType of a response of the extraction path that holds records
\* joins exactly the names of the types whose collection is non-empty, or is the
\* type hint when the hint was applied to every item.
C14_DetectedTypeJoinsTypes ==
    (Done /\ resp.path \in {"items", "wrapper"} /\ Kept(resp) > 0) =>
        IF resp.path = "items" /\ req.dataType # "none"
        THEN resp.detectedType = <<req.dataType>>
        ELSE {resp.detectedType[i] : i \in 1..Len(resp.detectedType)} = TypesWithRecords(resp)

\* C15: whenever the processing of a parsed reply ends without a record, the
\* response is returned (no exception), errors holds the explanatory entry and
\* the four collections are empty lists.
C15_EmptyResultStillReturned ==
    (pc \in {"done", "raised"} /\ parsed # Unparsed /\ (Done => Kept(resp) = 0)) =>
        /\ Done
        /\ \E j \in 1..Len(resp.errors) : resp.errors[j] = MsgNoValidData
        /\ resp.startups = <<>> /\ resp.investors = <<>>
        /\ resp.mentors = <<>> /\ resp.corporates = <<>>

\* the normalised header keys of the table of the request
TableKeys ==
    {normalize_header(Spell(k)) :
        k \in {x \in DOMAIN CsvRows(req.data, HeaderIdx(req.data))[1] : x # ""}}

\* the type signals the header keys satisfy
SignalsOf(H) ==
    (IF H \cap {T_full_name, T_fullname} # {} /\ T_email \in H THEN {"mentor"} ELSE {})
    \cup (IF H \cap {T_contact_name, T_contactname} # {}
             /\ H \cap {T_firm_name, T_firmname, T_company_name, T_companyname} # {}
          THEN {"corporate"} ELSE {})
    \cup (IF H \cap {T_investor_name, T_firm_name, T_firmname} # {}
             /\ H \cap {T_member_name, T_membername, T_team_member} # {}
          THEN {"investor"} ELSE {})
    \cup (IF H \cap {T_company_name, T_companyname} # {} /\ H \cap {T_funding, T_stage} # {}
          THEN {"startup"} ELSE {})

\* the first of Mentor, Corporate, Investor, Startup among the signals
Preferred(signals) ==
    IF "mentor" \in signals THEN "mentor"
    ELSE IF "corporate" \in signals THEN "corporate"
    ELSE IF "investor" \in signals THEN "investor"
    ELSE "startup"

\* C16: a direct CSV result holds records of exactly one type, detectedType
\* names that type, and the type is the first of Mentor, Corporate, Investor,
\* Startup whose signal the header keys satisfy.
C16_CsvSingleType ==
    (Done /\ resp.path = "csv") =>
        /\ TypesWithRecords(resp) = {Preferred(SignalsOf(TableKeys))}
        /\ SignalsOf(TableKeys) # {}
        /\ resp.detectedType = <<Preferred(SignalsOf(TableKeys))>>

\* a table with the header signals of a startup and of an investor, returned
\* as investors
C16_Witness ==
    /\ Done /\ resp.path = "csv"
    /\ req.data = << <<"companyName", "Stage", "Investor name", "Team Member">>, <<"A", "B", "A", "B">> >>
    /\ Len(resp.investors) = 1 /\ resp.startups = <<>>

C18_NumbersNonNegative ==
    Done =>
        /\ \A i \in 1..Len(resp.startups) : resp.startups[i].fundingTarget \in Nat
        /\ \A i \in 1..Len(resp.investors) :
              /\ resp.investors[i].minTicketSize \in Nat
              /\ resp.investors[i].maxTicketSize \in Nat
              /\ resp.investors[i].totalSlots \in Nat
        /\ \A i \in 1..Len(resp.mentors) : resp.mentors[i].totalSlots \in Nat
        /\ \A i \in 1..Len(resp.corporates) : resp.corporates[i].totalSlots \in Nat

\* no element of the list is the empty string
NoEmptyPiece(l) == \A i \in 1..Len(l) : l[i] # Str(<<>>)

\* C19: no list field of a returned record holds an empty string: the pieces of
\* a delimited string are trimmed and the empty ones dropped.
C19_NoEmptyListPieces ==
    Done =>
        /\ \A i \in 1..Len(resp.startups) : NoEmptyPiece(resp.startups[i].geoMarkets)
        /\ \A i \in 1..Len(resp.investors) :
              /\ NoEmptyPiece(resp.investors[i].geoFocus)
              /\ NoEmptyPiece(resp.investors[i].industryPreferences)
              /\ NoEmptyPiece(resp.investors[i].stagePreferences)
        /\ \A i \in 1..Len(resp.mentors) :
              /\ NoEmptyPiece(resp.mentors[i].geoFocus)
              /\ NoEmptyPiece(resp.mentors[i].industryPreferences)
              /\ NoEmptyPiece(resp.mentors[i].expertiseAreas)
        /\ \A i \in 1..Len(resp.corporates) :
              /\ NoEmptyPiece(resp.corporates[i].geoFocus)
              /\ NoEmptyPiece(resp.corporates[i].industryPreferences)
              /\ NoEmptyPiece(resp.corporates[i].partnershipTypes)
              /\ NoEmptyPiece(resp.corporates[i].stages)


(***************************************************************************)
(* Two requests in flight on the event loop.  convert_data is a coroutine: *)
(* it runs without interruption between its awaits, and the only awaits    *)
(* after its entry are the extraction calls.  Everything the handler       *)
(* writes is a local of the invocation, so pair[r] holds the locals of     *)
(* request r:                                                              *)
(*   pc       "start", "await" (suspended in an extraction call), "done",  *)
(*            "raised"                                                     *)
(*   req, attempt, parsed, resp   as in the single-request machine         *)
(*   overlap  ghost: the other request was suspended when this one ended   *)
(***************************************************************************)
Requests == {1, 2}

Other(r) == 3 - r

\* the requests and replies explored with two requests in flight
PairRequests ==
    { [format |-> "text", dataType |-> "none", data |-> NoTable],
      [format |-> "text", dataType |-> "investor", data |-> NoTable],
      [format |-> "csv", dataType |-> "none", data |-> <<<<"Investor name", "Team Member">>, <<"A", "B">>>>],
      [format |-> "csv", dataType |-> "none", data |-> <<<<"name", "Region">>, <<"A", "B">>>>] }

PairReplies ==
    { Lst(<<D1("companyName", SA), D1("firmName", SB)>>),
      WrapperOf(Lst(<<D1("companyName", SB)>>), Lst(<<D1("firmName", SA)>>), Absent, Absent),
      D1("fullName", SA),
      None }

Locals(rq) ==
    [pc |-> "start", req |-> rq, attempt |-> 1, parsed |-> Unparsed,
     resp |-> NoResponse, overlap |-> FALSE]

\* fault: the result lists live at module level, so a request starts from the
\* lists the other request has filled
SharedCollections(p, r) ==
    IF p[Other(r)].pc = "done" /\ p[Other(r)].parsed # Unparsed
    THEN [EmptyAcc("unknown") EXCEPT !.startups = p[Other(r)].resp.startups,
                                     !.investors = p[Other(r)].resp.investors,
                                     !.mentors = p[Other(r)].resp.mentors,
                                     !.corporates = p[Other(r)].resp.corporates,
                                     !.warnings = p[Other(r)].resp.warnings,
                                     !.errors = p[Other(r)].resp.errors]
    ELSE EmptyAcc("unknown")

\* lines 1620-1625 and 1710-1715: request r of p allocates its result lists
\* when it reaches the loops
FreshCollections(p, r) == EmptyAcc("unknown")

\* lines 1490-1498, for the request rq
DirectCsvOf(rq) == IF rq.format = "csv" THEN try_direct_csv_parse(rq.data) ELSE NoResponse

PairInit ==
    /\ pair \in [Requests -> {Locals(rq) : rq \in PairRequests}]
    /\ pc = "pair"
    /\ req = [format |-> "text", dataType |-> "none", data |-> NoTable]
    /\ cfg = [provider |-> "claude", key_set |-> TRUE, url_default |-> TRUE]
    /\ attempt = 1
    /\ calls = 0
    /\ inflight = 0
    /\ model_idx = 0
    /\ failed = FALSE
    /\ request_after_failure = FALSE
    /\ reply = "none"
    /\ parsed = Unparsed
    /\ resp = NoResponse
    /\ status = 0
    /\ call = NoCall
    /\ sent = NoPayload

\* request r ends (returns or raises) with the locals l
PairEnd(r, l) ==
    /\ pair' = [pair EXCEPT ![r] = [l EXCEPT !.overlap = (pair[Other(r)].pc = "await")]]
    /\ UNCHANGED <<sent, call, pc, req, cfg, attempt, calls, inflight, model_idx, failed,
                   request_after_failure, reply, parsed, resp, status>>

\* request r suspends in an extraction call with the locals l
PairSuspend(r, l) ==
    /\ pair' = [pair EXCEPT ![r] = l]
    /\ UNCHANGED <<sent, call, pc, req, cfg, attempt, calls, inflight, model_idx, failed,
                   request_after_failure, reply, parsed, resp, status>>

\* lines 1490-1498: request r returns the direct CSV result without suspending
PairReturnDirectCsv(r) ==
    /\ pair[r].pc = "start"
    /\ DirectCsvOf(pair[r].req) # NoResponse
    /\ PairEnd(r, [pair[r] EXCEPT !.pc = "done", !.resp = DirectCsvOf(pair[r].req)])

\* lines 1505-1517: request r awaits the extraction call
PairBeginCall(r) ==
    /\ pair[r].pc = "start"
    /\ DirectCsvOf(pair[r].req) = NoResponse
    /\ PairSuspend(r, [pair[r] EXCEPT !.pc = "await"])

\* the extraction call of request r raises
PairCallFails(r) ==
    /\ pair[r].pc = "await"
    /\ PairEnd(r, [pair[r] EXCEPT !.pc = "raised"])

\* lines 1512-1517: the reply of request r does not parse; one retry
PairTextUnparseable(r) ==
    /\ pair[r].pc = "await"
    /\ IF pair[r].attempt = 1
       THEN PairSuspend(r, [pair[r] EXCEPT !.attempt = 2])
       ELSE PairEnd(r, [pair[r] EXCEPT !.pc = "raised"])

\* lines 1607-1796: the reply of request r parses to v
PairTextParsed(r, v) ==
    /\ pair[r].pc = "await"
    /\ IF ConvertFrom(FreshCollections(pair, r), v, pair[r].req.dataType) = Raised
       THEN PairEnd(r, [pair[r] EXCEPT !.pc = "raised", !.parsed = v])
       ELSE PairEnd(r, [pair[r] EXCEPT !.pc = "done", !.parsed = v,
                          !.resp = ConvertFrom(FreshCollections(pair, r), v, pair[r].req.dataType).r])

PairNext ==
    \E r \in Requests :
        \/ PairReturnDirectCsv(r)
        \/ PairBeginCall(r)
        \/ PairCallFails(r)
        \/ PairTextUnparseable(r)
        \/ \E v \in PairReplies : PairTextParsed(r, v)

SpecPair == PairInit /\ [][PairNext]_vars

-----------------------------------------------------------------------------
(* Row validation of the file endpoints *)

\* "<Entity> row <idx>: missing <fields>"
MsgRowMissing(entity, idx, missing) == [kind |-> "row missing", arg |-> <<entity, idx, missing>>]

\* the names of the fields of rec, in the order of fields, that are empty
Missing(rec, fields) == SelectSeq(fields, LAMBDA f : rec[f] = <<>>)

\* one loop of validate_structured_rows: a message per row with a missing field
RowErrors(rows, entity, fields) ==
    LET flagged == SelectSeq([i \in 1..Len(rows) |-> i], LAMBDA i : Missing(rows[i], fields) # <<>>)
    IN  [j \in 1..Len(flagged) |-> MsgRowMissing(entity, flagged[j], Missing(rows[flagged[j]], fields))]

\* validate_structured_rows(startups, investors, mentors, corporates)
validate_structured_rows(startups, investors, mentors, corporates) ==
    RowErrors(startups, "Startup", <<"companyName">>)
    \o RowErrors(investors, "Investor", <<"firmName", "memberName">>)
    \o RowErrors(mentors, "Mentor", <<"fullName", "email">>)
    \o RowErrors(corporates, "Corporate", <<"firmName", "contactName">>)

\* the error convert_file adds when nothing was extracted
MsgNoValidDataFile == [kind |-> "No valid data extracted (file)", arg |-> None]

\* convert_file, from the result of convert_data on
convert_file(result) ==
    IF ~AnyRecords(result) THEN [result EXCEPT !.errors = Append(@, MsgNoValidDataFile)]
    ELSE [result EXCEPT !.warnings = @ \o validate_structured_rows(result.startups, result.investors,
                                                                     result.mentors, result.corporates)]

\* the errors of validate_file, which validates the startups and investors only
validate_file_errors(result) ==
    result.errors \o validate_structured_rows(result.startups, result.investors, <<>>, <<>>)

-----------------------------------------------------------------------------
(* parse_ollama_response.  A response is its sequence of characters.       *)
(* json.loads is modelled on the characters the responses below are made   *)
(* of: brackets, braces, quote, backslash, colon, comma, digits, space and *)
(* other letters (which start no JSON value).                              *)

JFail == [ok |-> FALSE]

\* a value v was read and the next character is at position i
JOk(v, i) == [ok |-> TRUE, v |-> v, i |-> i]

RECURSIVE SkipWs(_, _)
SkipWs(s, i) == IF i <= Len(s) /\ IsSpace(s[i]) THEN SkipWs(s, i + 1) ELSE i

\* the rest of a string literal whose opening quote precedes position i
RECURSIVE JString(_, _, _)
JString(s, i, acc) ==
    IF i > Len(s) THEN JFail
    ELSE IF s[i] = "\"" THEN JOk(Str(acc), i + 1)
    ELSE IF s[i] = "\\"
         THEN (IF i + 1 <= Len(s) /\ s[i + 1] \in {"\"", "\\"}
               THEN JString(s, i + 2, Append(acc, s[i + 1]))
               ELSE JFail)
    ELSE JString(s, i + 1, Append(acc, s[i]))

RECURSIVE DigitsEnd(_, _)
DigitsEnd(s, i) == IF i <= Len(s) /\ s[i] \in DigitChars THEN DigitsEnd(s, i + 1) ELSE i

\* an integer literal at position i; a leading zero is not followed by a digit
JNumber(s, i) ==
    IF s[i] = "0" /\ DigitsEnd(s, i) > i + 1 THEN JFail
    ELSE JOk(Num(DigitsVal(SubSeq(s, i, DigitsEnd(s, i) - 1))), DigitsEnd(s, i))

\* an object with the member key: v added; a repeated key keeps the last value
WithMember(d, key, v) == [k \in DOMAIN d \cup {key} |-> IF k = key THEN v ELSE d[k]]

RECURSIVE JValue(_, _)
RECURSIVE JElements(_, _, _)
RECURSIVE JMembers(_, _, _)
RECURSIVE JMemberValue(_, _, _, _)

\* the JSON value that starts at or after position i0
JValue(s, i0) ==
    LET i == SkipWs(s, i0)
    IN  IF i > Len(s) THEN JFail
        ELSE IF s[i] = "[" THEN
            (IF SkipWs(s, i + 1) <= Len(s) /\ s[SkipWs(s, i + 1)] = "]"
             THEN JOk(Lst(<<>>), SkipWs(s, i + 1) + 1)
             ELSE JElements(s, i + 1, <<>>))
        ELSE IF s[i] = "{" THEN
            (IF SkipWs(s, i + 1) <= Len(s) /\ s[SkipWs(s, i + 1)] = "}"
             THEN JOk(Dict(EmptyDict), SkipWs(s, i + 1) + 1)
             ELSE JMembers(s, i + 1, EmptyDict))
        ELSE IF s[i] = "\"" THEN JString(s, i + 1, <<>>)
        ELSE IF s[i] \in DigitChars THEN JNumber(s, i)
        ELSE JFail

\* the elements of an array from position i on, acc being those already read
JElements(s, i, acc) ==
    LET e == JValue(s, i)
    IN  IF ~e.ok THEN JFail
        ELSE LET j == SkipWs(s, e.i)
             IN  IF j > Len(s) THEN JFail
                 ELSE IF s[j] = "," THEN JElements(s, j + 1, Append(acc, e.v))
                 ELSE IF s[j] = "]" THEN JOk(Lst(Append(acc, e.v)), j + 1)
                 ELSE JFail

\* the members of an object from position i on
JMembers(s, i, acc) ==
    LET k0 == SkipWs(s, i)
    IN  IF k0 > Len(s) \/ s[k0] # "\"" THEN JFail
        ELSE LET k == JString(s, k0 + 1, <<>>)
             IN  IF ~k.ok THEN JFail
                 ELSE IF SkipWs(s, k.i) > Len(s) \/ s[SkipWs(s, k.i)] # ":" THEN JFail
                 ELSE JMemberValue(s, SkipWs(s, k.i) + 1, acc, k.v.s)

JMemberValue(s, i, acc, key) ==
    LET e == JValue(s, i)
    IN  IF ~e.ok THEN JFail
        ELSE LET j == SkipWs(s, e.i)
             IN  IF j > Len(s) THEN JFail
                 ELSE IF s[j] = "," THEN JMembers(s, j + 1, WithMember(acc, key, e.v))
                 ELSE IF s[j] = "}" THEN JOk(Dict(WithMember(acc, key, e.v)), j + 1)
                 ELSE JFail

\* json.loads(s): Ok(value), or Raised for JSONDecodeError
Loaded(s, r) == IF r.ok /\ SkipWs(s, r.i) > Len(s) THEN Ok(r.v) ELSE Raised

json_loads(s) == Loaded(s, JValue(s, 1))

\* the backquote character, which a string of this language cannot hold
Backtick == "backquote"

\* re.sub(pat + r'\n?', '', s) for a literal pat
RECURSIVE RemoveSub(_, _)
RemoveSub(s, pat) ==
    IF Len(s) < Len(pat) THEN s
    ELSE IF SubSeq(s, 1, Len(pat)) = pat
         THEN (IF Len(s) > Len(pat) /\ s[Len(pat) + 1] = "\n"
               THEN RemoveSub(SubSeq(s, Len(pat) + 2, Len(s)), pat)
               ELSE RemoveSub(SubSeq(s, Len(pat) + 1, Len(s)), pat))
    ELSE <<Head(s)>> \o RemoveSub(Tail(s), pat)

\* lines 388-390: the markdown fences are removed and the text stripped
Unfenced(response) ==
    Strip(RemoveSub(RemoveSub(response, <<Backtick, Backtick, Backtick, "j", "s", "o", "n">>), <<Backtick, Backtick, Backtick>>))

\* lines 403-435: one character of the scan.  st and the result are
\* <<start_idx, stack, in_string, escape, found>>; start_idx is 0 for None.
ScanChar(text, i, st) ==
    IF st[1] = 0 THEN
        (IF text[i] = "{" THEN <<i, <<"}">>, st[3], st[4], FALSE>>
         ELSE IF text[i] = "[" THEN <<i, <<"]">>, st[3], st[4], FALSE>>
         ELSE st)
    ELSE IF st[3] THEN
        (IF st[4] THEN <<st[1], st[2], TRUE, FALSE, FALSE>>
         ELSE IF text[i] = "\\" THEN <<st[1], st[2], TRUE, TRUE, FALSE>>
         ELSE IF text[i] = "\"" THEN <<st[1], st[2], FALSE, st[4], FALSE>>
         ELSE st)
    ELSE IF text[i] = "\"" THEN <<st[1], st[2], TRUE, st[4], FALSE>>
    ELSE IF text[i] = "{" THEN <<st[1], Append(st[2], "}"), st[3], st[4], FALSE>>
    ELSE IF text[i] = "[" THEN <<st[1], Append(st[2], "]"), st[3], st[4], FALSE>>
    ELSE IF text[i] \in {"}", "]"} /\ st[2] # <<>> /\ text[i] = st[2][Len(st[2])]
         THEN <<st[1], SubSeq(st[2], 1, Len(st[2]) - 1), st[3], st[4], Len(st[2]) = 1>>
    ELSE st

RECURSIVE Scan(_, _, _)
RECURSIVE ScanOn(_, _, _)

\* the scan from character i on, in the state st: the block, <<>> for None
Scan(text, i, st) == IF i > Len(text) THEN <<>> ELSE ScanOn(text, i, ScanChar(text, i, st))

\* after character i: `return text[start_idx:i + 1]`, or the next character
ScanOn(text, i, st) == IF st[5] THEN SubSeq(text, st[1], i) ELSE Scan(text, i + 1, st)

\* lines 392-437: the first balanced block of text, <<>> for None
extract_first_json_block(text) == Scan(text, 1, <<0, <<>>, FALSE, FALSE, FALSE>>)

\* lines 439-456 on the cleaned text: the block if it parses, else the whole text
ParseCleaned(text, block) ==
    IF block # <<>> /\ json_loads(block) # Raised THEN json_loads(block) ELSE json_loads(text)

\* parse_ollama_response: Ok(value), or Raised for the ValueError
parse_ollama_response(response) ==
    ParseCleaned(Unfenced(response), extract_first_json_block(Unfenced(response)))

-----------------------------------------------------------------------------
(***************************************************************************)
(* The functions of the module called on their own.  call holds one call:  *)
(*   fn        the function called                                         *)
(*   arg       its argument                                                *)
(*   returned  whether the call has returned                               *)
(*   out       the value returned (None until then)                        *)
(***************************************************************************)
Called(fn, arg) == [fn |-> fn, arg |-> arg, returned |-> FALSE, out |-> None]

\* the values given to the alias keys of a field
AliasVals == {None, Str(<<>>), SA, SB}

\* records that carry two aliases of one field
StartupAliasRecords == {D2("companyName", v1, "company_name", v2) : v1, v2 \in AliasVals}

InvestorAliasRecords ==
    {D2("firmName", v1, "firm_name", v2) : v1, v2 \in AliasVals}
    \cup {D3("firmName", SA, "totalSlots", n1, "total_slots", n2) : n1, n2 \in {None, Num(0), Num(5)}}

\* investor records that carry a vendor label key next to a generic key
InvestorVendorRecords ==
    {D3("firmName", SA, k, SA, "Main Geographies Targeted (labels)", SB) : k \in {"geoFocus", "geo_focus", "region"}}
    \cup {D3("firmName", SA, k, SA, "[BD] Vertical Interests / Vertical (labels)", SB) :
              k \in {"industryPreferences", "industries"}}
    \cup {D3("firmName", SA, k, SA, "[INV] Team Member (users)", SB) : k \in {"memberName", "contactName"}}
    \cup {D2("firmName", SA, "Main Geographies Targeted (labels)", SB)}

\* cheque sizes: an amount is a number with no suffix, K, k or M; ten times
\* the largest one stays within the integers of the model checker
Amounts == {<<n, u>> : n \in {1, 50, 100, 200}, u \in {"", "K", "k", "M"}} \cup {<<500, "K">>}

AmountText(a) == NatChars(a[1]) \o (IF a[2] = "" THEN <<>> ELSE <<a[2]>>)

AmountValue(a) == a[1] * (CASE a[2] = "M" -> 1000000 [] a[2] \in {"K", "k"} -> 1000 [] OTHER -> 1)

ChequeRecord(text) == D2("firmName", SA, "Cheque Size", Str(text))

DashText(a, b) == AmountText(a) \o <<"-">> \o AmountText(b)

\* investor records with a well-formed cheque size: "A-B", ">A", "<A", "A"
InvestorChequeRecords ==
    {ChequeRecord(DashText(a, b)) : a, b \in Amounts}
    \cup {ChequeRecord(<<">">> \o AmountText(a)) : a \in Amounts}
    \cup {ChequeRecord(<<"<">> \o AmountText(a)) : a \in Amounts}
    \cup {ChequeRecord(AmountText(a)) : a \in Amounts}

\* investor records whose cheque size ends with '-' or holds two '-'
InvestorDashRecords ==
    {ChequeRecord(AmountText(a) \o <<"-">>) : a \in Amounts}
    \cup {ChequeRecord(DashText(a, b) \o <<"-">> \o AmountText(c)) : a, b, c \in {<<1, "K">>, <<50, "">>}}

MentorAliasRecords == {D3("email", SA, "fullName", v1, "full_name", v2) : v1, v2 \in AliasVals}

\* the text of a CSV file, as the rows csv.reader gives
CsvText(raw_rows) == [t |-> "csv", rows |-> raw_rows]

\* the lines before the header row: none, one or two blank lines
BlankLines == {<<>>, <<<<>>>>, <<<<>>, <<>>>>}

RegionHeader == <<"Full Name", "Email", "Region">>

RegionRows == SeqsUpTo({<<"A", "B", "A">>, <<"B", "A", "B">>}, MaxRows) \ {<<>>}

\* tables of mentors with a Region column, the header after blank lines
RegionTables == {blank \o <<RegionHeader>> \o rows : blank \in BlankLines, rows \in RegionRows}

\* the text of a model response
Text(chars) == [t |-> "text", chars |-> chars]

\* JSON texts: [], {"x":[1,{"x":1}]}, ["]"], ["\""], {"x":"{"}, [1, 1]
JsonTexts ==
    { <<"[", "]">>,
      <<"{", "\"", "x", "\"", ":", "[", "1", ",", "{", "\"", "x", "\"", ":", "1", "}", "]", "}">>,
      <<"[", "\"", "]", "\"", "]">>,
      <<"[", "\"", "\\", "\"", "\"", "]">>,
      <<"{", "\"", "x", "\"", ":", "\"", "{", "\"", "}">>,
      <<"[", "1", ",", " ", "1", "]">> }

\* prose before the JSON text; the last one opens a markdown fence
ProseBefore ==
    { <<>>, <<"x", " ">>, <<"x", ":", " ">>, <<"\"", "x", " ">>, <<"x", "]", " ">>,
      <<"[", "x", "]", " ">>, <<"x", "{", " ">>, <<Backtick, Backtick, Backtick>> }

\* prose after the JSON text; the last one closes a markdown fence
ProseAfter ==
    { <<>>, <<" ", "x">>, <<" ", "x", "]">>, <<" ", "\"">>, <<" ", "[", "1", "]">>, <<Backtick, Backtick, Backtick>> }

Responses == {Text(p1 \o j \o p2) : p1 \in ProseBefore, j \in JsonTexts, p2 \in ProseAfter}

\* items of batches: two items whose resolver throws (int('x') of the mentor
\* resolver, float('1.2.3') of the startup resolver), a startup, an investor, a
\* mentor, and two items without a discriminator key
BatchItems ==
    { D3("fullName", SA, "email", SB, "totalSlots", Str(<<"x">>)),
      D1("fundingTarget", Str(<<"1", ".", "2", ".", "3">>)),
      D1("companyName", SA), D1("firmName", SA), D2("fullName", SA, "email", SB),
      D1("name", SA), D2("name", SA, "email", SB) }

\* a parsed list of items and the type hint of the request
Batch(items, dataType) == [t |-> "parsed", items |-> items, dataType |-> dataType]

Batches == {Batch(items, dt) : items \in SeqsUpTo(BatchItems, MaxItems), dt \in {"none", "startup"}}

CallInputs ==
    {Called("normalize_startup_data", d) : d \in StartupAliasRecords}
    \cup {Called("normalize_investor_data", d) : d \in InvestorAliasRecords \cup InvestorVendorRecords
                                                       \cup InvestorChequeRecords
                                                       \cup InvestorDashRecords}
    \cup {Called("normalize_mentor_data", d) : d \in MentorAliasRecords}
    \cup {Called("try_direct_csv_parse", CsvText(tb)) : tb \in RegionTables}
    \cup {Called("parse_ollama_response", t) : t \in Responses}
    \cup {Called("convert_data", b) : b \in Batches}

CallInit ==
    /\ call \in CallInputs
    /\ pc = "call"
    /\ req = [format |-> "text", dataType |-> "none", data |-> NoTable]
    /\ cfg = [provider |-> "claude", key_set |-> TRUE, url_default |-> TRUE]
    /\ attempt = 1
    /\ calls = 0
    /\ inflight = 0
    /\ model_idx = 0
    /\ failed = FALSE
    /\ request_after_failure = FALSE
    /\ reply = "none"
    /\ parsed = Unparsed
    /\ resp = NoResponse
    /\ status = 0
    /\ pair = NoPair
    /\ sent = NoPayload

\* the call returns out
Returns(out) ==
    /\ ~call.returned
    /\ call' = [call EXCEPT !.returned = TRUE, !.out = out]
    /\ UNCHANGED <<sent, pc, req, cfg, attempt, calls, inflight, model_idx, failed,
                   request_after_failure, reply, parsed, resp, status, pair>>

CallStartup ==
    /\ call.fn = "normalize_startup_data"
    /\ Returns(normalize_startup_data(call.arg.d))

CallInvestor ==
    /\ call.fn = "normalize_investor_data"
    /\ Returns(normalize_investor_data(call.arg.d))

CallMentor ==
    /\ call.fn = "normalize_mentor_data"
    /\ Returns(normalize_mentor_data(call.arg.d))

CallDirectCsv ==
    /\ call.fn = "try_direct_csv_parse"
    /\ Returns(try_direct_csv_parse(call.arg.rows))

CallParse ==
    /\ call.fn = "parse_ollama_response"
    /\ Returns(parse_ollama_response(call.arg.chars))

\* convert_data from the parsed list on
CallConvert ==
    /\ call.fn = "convert_data"
    /\ Returns(ConvertParsed(Lst(call.arg.items), call.arg.dataType))

CallNext ==
    \/ CallStartup
    \/ CallInvestor
    \/ CallMentor
    \/ CallDirectCsv
    \/ CallParse
    \/ CallConvert

SpecCalls == CallInit /\ [][CallNext]_vars

\* the call of fn has returned a record
ReturnedOk(fn) == call.fn = fn /\ call.returned /\ call.out # Raised

\* the value of the first key of keys that data holds with a non-null value
RECURSIVE FirstNonNull(_, _, _)
FirstNonNull(data, keys, default) ==
    IF keys = <<>> THEN default
    ELSE IF Head(keys) \in DOMAIN data /\ data[Head(keys)] # None THEN data[Head(keys)]
    ELSE FirstNonNull(data, Tail(keys), default)

\* C21: a canonical field is resolved from the first alias, in the field's
\* order, that the record holds with a non-null value: an empty earlier alias
\* wins over a later one, a null earlier alias is skipped.  Stated for
\* Startup.companyName, Investor.firmName, Investor.totalSlots and
\* Mentor.fullName.
C21_FirstNonNullAliasWins ==
    /\ ReturnedOk("normalize_startup_data") =>
          call.out.r.companyName =
              safe_str(FirstNonNull(call.arg.d, <<"companyName", "company_name", "name">>, Str(<<>>)))
    /\ ReturnedOk("normalize_investor_data") =>
          /\ call.out.r.firmName =
                 safe_str(FirstNonNull(call.arg.d, <<"firmName", "firm_name", "Investor name", "name",
                                                     "firm", "Company Name">>, Str(<<>>)))
          /\ call.out.r.totalSlots =
                 safe_int(FirstNonNull(call.arg.d, <<"totalSlots", "total_slots", "slots">>, Num(3)), 3)
    /\ ReturnedOk("normalize_mentor_data") =>
          call.out.r.fullName =
              safe_str(FirstNonNull(call.arg.d, <<"fullName", "full_name", "Full Name", "name">>, Str(<<>>)))

\* C22: when an investor record holds a vendor label key of geoFocus,
\* industryPreferences or memberName, the field's value comes from that key,
\* whatever generic keys of the field the record also holds.
C22_VendorLabelBeforeGeneric ==
    ReturnedOk("normalize_investor_data") =>
        /\ "Main Geographies Targeted (labels)" \in DOMAIN call.arg.d =>
              call.out.r.geoFocus = parse_list(call.arg.d["Main Geographies Targeted (labels)"])
        /\ "[BD] Vertical Interests / Vertical (labels)" \in DOMAIN call.arg.d =>
              call.out.r.industryPreferences =
                  parse_list(call.arg.d["[BD] Vertical Interests / Vertical (labels)"])
        /\ "[INV] Team Member (users)" \in DOMAIN call.arg.d =>
              call.out.r.memberName = safe_str(call.arg.d["[INV] Team Member (users)"])

\* the call resolved an investor with the ticket sizes lo and hi
Tickets(lo, hi) == call.out.r.minTicketSize = lo /\ call.out.r.maxTicketSize = hi

\* C23: for a cheque size "A-B" the ticket sizes are (amount(A), amount(B)),
\* for ">A" (amount(A), 10 * amount(A)), for "<A" (amount(A) div 10, amount(A)),
\* for a bare "A" (amount(A), 5 * amount(A)), where amount applies the K / M
\* multiplier.
C23_ChequeSizeRanges ==
    ReturnedOk("normalize_investor_data") =>
        \A a \in Amounts :
            /\ call.arg = ChequeRecord(<<">">> \o AmountText(a)) =>
                  Tickets(AmountValue(a), 10 * AmountValue(a))
            /\ call.arg = ChequeRecord(<<"<">> \o AmountText(a)) =>
                  Tickets(AmountValue(a) \div 10, AmountValue(a))
            /\ call.arg = ChequeRecord(AmountText(a)) =>
                  Tickets(AmountValue(a), 5 * AmountValue(a))
            /\ \A b \in Amounts :
                  call.arg = ChequeRecord(DashText(a, b)) => Tickets(AmountValue(a), AmountValue(b))

\* the investor of cheque size "100K-500K" is resolved with the tickets
\* (100000, 500000)
C23_Witness ==
    /\ ReturnedOk("normalize_investor_data")
    /\ call.arg = ChequeRecord(<<"1", "0", "0", "K", "-", "5", "0", "0", "K">>)
    /\ Tickets(100000, 500000)

\* the position of the first '-' of text
FirstDash(text) == CHOOSE i \in 1..Len(text) : text[i] = "-" /\ \A j \in 1..(i - 1) : text[j] # "-"

\* the ticket sizes of a cheque size split once on its first '-'
SplitOnceTickets(text) ==
    LET left == SubSeq(text, 1, FirstDash(text) - 1)
        rest == SubSeq(text, FirstDash(text) + 1, Len(text))
    IN  <<parse_number(Str(left)),
          IF rest = <<>> THEN parse_number(Str(left)) * 10 ELSE parse_number(Str(rest))>>

\* C24: a cheque size that contains '-' is split once on its first '-':
\* minTicketSize is the amount of the left part, maxTicketSize the amount of
\* the whole remainder, and ten times minTicketSize when nothing follows the '-'.
C24_SplitOnceOnFirstDash ==
    (/\ ReturnedOk("normalize_investor_data")
     /\ "Cheque Size" \in DOMAIN call.arg.d
     /\ HasChar(call.arg.d["Cheque Size"].s, "-")) =>
        Tickets(SplitOnceTickets(call.arg.d["Cheque Size"].s)[1],
                SplitOnceTickets(call.arg.d["Cheque Size"].s)[2])

\* the call parsed a table of RegionTables with the data rows `rows`
ParsedRegionTable(rows) ==
    /\ call.fn = "try_direct_csv_parse"
    /\ call.returned
    /\ \E blank \in BlankLines : call.arg = CsvText(blank \o <<RegionHeader>> \o rows)

\* C25: for a table whose header 'Full Name,Email,Region' follows blank lines,
\* the result is of type mentor and holds one Mentor per data row, whose
\* fullName, email and geoFocus are the row's Full Name, Email and Region cells.
C25_MentorRowsAfterBlankLines ==
    \A rows \in RegionRows :
        ParsedRegionTable(rows) =>
            /\ call.out # NoResponse
            /\ call.out.detectedType = <<"mentor">>
            /\ Len(call.out.mentors) = Len(rows)
            /\ \A i \in 1..Len(rows) :
                  /\ call.out.mentors[i].fullName = Spell(rows[i][1])
                  /\ call.out.mentors[i].email = Spell(rows[i][2])
                  /\ call.out.mentors[i].geoFocus = <<Str(Spell(rows[i][3]))>>

\* the part of the statement that holds: header, type, names and emails, with
\* an empty geoFocus in every record
RegionTableNamesAndEmails ==
    \A rows \in RegionRows :
        ParsedRegionTable(rows) =>
            /\ call.out # NoResponse
            /\ call.out.detectedType = <<"mentor">>
            /\ Len(call.out.mentors) = Len(rows)
            /\ \A i \in 1..Len(rows) :
                  /\ call.out.mentors[i].fullName = Spell(rows[i][1])
                  /\ call.out.mentors[i].email = Spell(rows[i][2])
                  /\ call.out.mentors[i].geoFocus = <<>>

\* C26: a response made of prose, one valid JSON object or array and prose
\* again parses to exactly the value of that JSON text.
C26_JsonBetweenProse ==
    (call.fn = "parse_ollama_response" /\ call.returned) =>
        \A p1 \in ProseBefore, j \in JsonTexts, p2 \in ProseAfter :
            call.arg = Text(p1 \o j \o p2) => call.out = json_loads(j)

\* prose that holds no bracket and no brace
Bracketless(p) == \A i \in 1..Len(p) : p[i] \notin {"[", "]", "{", "}"}

\* the part of the statement that holds: the same with no bracket or brace in
\* the prose before the JSON text
JsonAfterBracketlessProse ==
    (call.fn = "parse_ollama_response" /\ call.returned) =>
        \A p1 \in ProseBefore, j \in JsonTexts, p2 \in ProseAfter :
            (call.arg = Text(p1 \o j \o p2) /\ (Bracketless(p1) \/ p1 = <<"x", "]", " ">>)) =>
                call.out = json_loads(j)

\* C27: the retry call made after a malformed first response carries a
\* strictly larger output-token budget than the first call, and its prompt is
\* the conversion prompt with the JSON-only instruction added, on the Claude
\* path and on the Ollama path.
C27_RetryLargerBudget ==
    [][(attempt = 1 /\ attempt' = 2) =>
          /\ sent'.max_tokens > sent.max_tokens
          /\ sent'.prompt = <<"Return ONLY valid JSON">> \o sent.prompt]_vars

\* the part of the statement that holds: the prompt on both paths, the budget
\* on the Ollama path
RetryStricterPrompt ==
    [][(attempt = 1 /\ attempt' = 2) =>
          /\ sent'.prompt = <<"Return ONLY valid JSON">> \o sent.prompt
          /\ ~UseClaude => sent'.max_tokens > sent.max_tokens
          /\ UseClaude => sent'.max_tokens = sent.max_tokens]_vars

\* the response to a batch
OfBatch(items, dataType) == PerItemResponse(items, dataType)

\* resolving the item throws: alone, it yields an "Error processing item" entry
Throws(item, dataType) ==
    \E j \in 1..Len(OfBatch(<<item>>, dataType).errors) :
        OfBatch(<<item>>, dataType).errors[j] = MsgItemError(<<"i", "t", "e", "m">>)

\* the batch without its i-th item
Without(items, i) == SubSeq(items, 1, i - 1) \o SubSeq(items, i + 1, Len(items))

SameRecords(r1, r2) ==
    /\ r1.startups = r2.startups
    /\ r1.investors = r2.investors
    /\ r1.mentors = r2.mentors
    /\ r1.corporates = r2.corporates

\* C28: when resolving one item of a batch throws, errors holds one entry more
\* than for the batch without that item, and the records are those of the
\* batch without that item.
C28_FailingItemIsolated ==
    (call.fn = "convert_data" /\ call.returned) =>
        \A i \in 1..Len(call.arg.items) :
            Throws(call.arg.items[i], call.arg.dataType) =>
                /\ SameRecords(call.out.r, OfBatch(Without(call.arg.items, i), call.arg.dataType))
                /\ Len(call.out.r.errors) =
                       Len(OfBatch(Without(call.arg.items, i), call.arg.dataType).errors) + 1

\* the part of the statement that holds: the same for the requests with a type
\* hint, and for the errors without one
FailingItemIsolatedWithHint ==
    (call.fn = "convert_data" /\ call.returned) =>
        \A i \in 1..Len(call.arg.items) :
            Throws(call.arg.items[i], call.arg.dataType) =>
                /\ call.arg.dataType # "none" =>
                      SameRecords(call.out.r, OfBatch(Without(call.arg.items, i), call.arg.dataType))
                /\ Len(call.out.r.errors) >=
                       Len(OfBatch(Without(call.arg.items, i), call.arg.dataType).errors)

\* the records of kind k that the items yield when each is converted alone
RECURSIVE EachAlone(_, _)
EachAlone(items, k) ==
    IF items = <<>> THEN <<>>
    ELSE (CASE k = "startups"   -> OfBatch(<<Head(items)>>, "none").startups
            [] k = "investors"  -> OfBatch(<<Head(items)>>, "none").investors
            [] k = "mentors"    -> OfBatch(<<Head(items)>>, "none").mentors
            [] k = "corporates" -> OfBatch(<<Head(items)>>, "none").corporates)
         \o EachAlone(Tail(items), k)

\* C29: without a type hint, the collection an item of a batch ends up in is
\* the one it ends up in when it is the only item: each collection of the
\* response is made of the records its items yield alone, in order.
C29_ItemFateIsItsOwn ==
    (call.fn = "convert_data" /\ call.returned /\ call.arg.dataType = "none") =>
        /\ call.out.r.startups = EachAlone(call.arg.items, "startups")
        /\ call.out.r.investors = EachAlone(call.arg.items, "investors")
        /\ call.out.r.mentors = EachAlone(call.arg.items, "mentors")
        /\ call.out.r.corporates = EachAlone(call.arg.items, "corporates")

\* C30: for every response convert_data returns, validate_structured_rows of
\* its four collections is empty, so convert_file leaves warnings as they are
\* and the errors of validate_file are the errors of the conversion.
C30_NoRowDiagnostics ==
    Done =>
        /\ validate_structured_rows(resp.startups, resp.investors, resp.mentors, resp.corporates) = <<>>
        /\ convert_file(resp).warnings = resp.warnings
        /\ validate_file_errors(resp) = resp.errors

\* a response holds an investor that came without a member name, next to a
\* startup, and passes the row validation
C30_Witness ==
    /\ Done
    /\ resp.startups # <<>>
    /\ \E i \in 1..Len(resp.investors) : resp.investors[i].memberName = UNKNOWN
    /\ validate_structured_rows(resp.startups, resp.investors, resp.mentors, resp.corporates) = <<>>

====
